---- MODULE Spec2Model ----
(***************************************************************************)
(* Branch tree engine of the Branch Browser: the in-memory branch store    *)
(* (branchState.js), the tab lifecycle handlers (branchEvents.js) and the  *)
(* drag/reconcile code of the side panel (branchPanel.js).                 *)
(*                                                                         *)
(* Encoding.  Branch ids are integers: ROOT_BRANCH_ID (0) stands for       *)
(* 'br_root', the ids 1, 2, ... for the ids generateBranchId returns.      *)
(* Null (-1) stands for null/undefined ids, Undef (-2) for a missing       *)
(* historyIndex field.  History cursors are 0-based as in the source, so   *)
(* the entry at cursor i is history[i + 1].  A missing history field and   *)
(* an empty one read the same everywhere (branch.history || []) and are    *)
(* both <<>>.  createdAt, lastActiveAt, state and entry timestamps are not *)
(* read by any operation and are left out.                                 *)
(*                                                                         *)
(* Every await is a suspension point: the part of a handler after an await *)
(* is a record in `pending` that a Resume action runs later.               *)
(***************************************************************************)
EXTENDS Integers, Sequences, FiniteSets, TLC

VARIABLES
  branches,     \* id -> branch record: the in-memory store
  order,        \* the ids of `branches` in the store's insertion order
  stored,       \* id -> branch record: the durable store (IndexedDB table)
  liveTabs,     \* tab ids that exist in the tab source
  tabBranch,    \* tab id -> the branchId held in the tab's data (Null: none)
  selected,     \* the selected tab (Null: none)
  tabsReady,    \* whether the global tab list is defined (safeTabs() non-null)
  dbAvail,      \* whether the database module loaded (getDb() non-null)
  pinnedSites,  \* branchPanel.pinnedSites: the pinned {url, title} entries
  otherTabs,    \* tab ids live in containers (tasks) other than the selected
  navToken,     \* branchPanel._currentNavToken is set
  pending,      \* suspended handlers: what each does when it resumes
  phase,        \* "start" | "listening" | "settled": startup progress
  nextId,       \* the next fresh branch id
  nextTab,      \* the next fresh tab id
  events,       \* number of external events handled so far (bounded)
  rootEnsured,  \* ensureRoot has been invoked at least once
  cascade,      \* ids destroyWithChildren calls set out to destroy
  lastOp        \* the last store call made directly and what it returned

vars == <<branches, order, stored, liveTabs, tabBranch, selected, tabsReady,
          dbAvail, pinnedSites, otherTabs, navToken, pending, phase, nextId,
          nextTab, events, rootEnsured, cascade, lastOp>>

(***************************************************************************)
(* Bounds and program constants                                            *)
(***************************************************************************)
MaxEvents == 3
\* Events and calls of a run that looks at histories
MaxCalls == 1
\* Short stored histories have up to ShortLen entries
ShortLen == 3
\* Stored histories of an older version exceed the limit by up to Over
Over == 2

Null == -1
Undef == -2
ROOT_BRANCH_ID == 0
ROOT_URL == ""
ROOT_TITLE == "Home"
HISTORY_LIMIT == 50

\* Urls and titles the tab source reports where only the tree is looked at
TreeUrls == {"a"}
TreeTitles == {"t"}

Max(a, b) == IF a >= b THEN a ELSE b
Min(a, b) == IF a <= b THEN a ELSE b

Entry(url, title) == [url |-> url, title |-> title]

Branch(tabId, parentId, url, title, history, historyIndex) ==
  [tabId |-> tabId, parentId |-> parentId, url |-> url, title |-> title,
   history |-> history, historyIndex |-> historyIndex]

\* The last n entries of s (Array.prototype.slice(-n) for n > 0).
Last(s, n) == IF Len(s) <= n THEN s ELSE SubSeq(s, Len(s) - n + 1, Len(s))

\* Array.prototype.slice(0, n) for n >= 0.
Prefix(s, n) == SubSeq(s, 1, Min(n, Len(s)))

SeqRange(s) == {s[i] : i \in 1..Len(s)}

Remove(seq, x) == SelectSeq(seq, LAMBDA y : y # x)

Restrict(f, S) == [x \in S |-> f[x]]

(***************************************************************************)
(* branchState.js: pure parts of the store operations.  Each takes the     *)
(* store map `br` (and its insertion order `ord`) and yields the new one.  *)
(***************************************************************************)

\* create(): the record stored under the fresh id.
NewBranch(tabId, parentId, url, title) ==
  LET initialHistory == IF url # "" THEN <<Entry(url, title)>> ELSE <<>>
  IN  Branch(tabId, parentId, url, title, initialHistory,
             IF Len(initialHistory) > 0 THEN 0 ELSE -1)

\* ensureRoot(): the ROOT record it creates (no history, no historyIndex).
RootBranch(tabId) ==
  Branch(tabId, Null, ROOT_URL, ROOT_TITLE, <<>>, Undef)

\* branches[id] = rec, keeping the position of an existing key.
Put(br, id, rec) == [x \in DOMAIN br \cup {id} |-> IF x = id THEN rec ELSE br[x]]
PutOrder(ord, br, id) == IF id \in DOMAIN br THEN ord ELSE Append(ord, id)

\* update(): Object.assign of `data` (a record of some fields) on branches[id].
Update(br, id, data) ==
  IF id \notin DOMAIN br THEN br
  ELSE [br EXCEPT ![id] =
          [f \in DOMAIN br[id] |-> IF f \in DOMAIN data THEN data[f] ELSE br[id][f]]]

UpdateRet(br, id) == id \in DOMAIN br

\* get()
Get(br, id) == IF id \in DOMAIN br THEN br[id] ELSE Null

\* getByTabId(): the first branch in iteration order with that tabId.
GetByTabId(br, ord, tabId) ==
  LET hits == SelectSeq(ord, LAMBDA id : br[id].tabId = tabId)
  IN  IF Len(hits) > 0 THEN hits[1] ELSE Null

\* getRoot(), isRoot()
GetRoot(br) == IF ROOT_BRANCH_ID \in DOMAIN br THEN ROOT_BRANCH_ID ELSE Null
\* isRoot() comparing with the wrong id
IsRootNever(id) == id = Null
IsRoot(id) == id = ROOT_BRANCH_ID

\* getChildren(): ids, in iteration order
GetChildren(br, ord, id) == SelectSeq(ord, LAMBDA c : br[c].parentId = id)

\* getDescendants(): each child followed by its own descendants
RECURSIVE GetDescendants(_, _, _)
RECURSIVE DescendantsOf(_, _, _)
DescendantsOf(br, ord, children) ==
  IF children = <<>> THEN <<>>
  ELSE <<Head(children)>> \o GetDescendants(br, ord, Head(children))
         \o DescendantsOf(br, ord, Tail(children))
GetDescendants(br, ord, id) == DescendantsOf(br, ord, GetChildren(br, ord, id))

\* getAncestors(): nearest first, stopping at a parent that does not exist
RECURSIVE GetAncestors(_, _)
GetAncestors(br, id) ==
  IF id \in DOMAIN br /\ br[id].parentId # Null /\ br[id].parentId \in DOMAIN br
  THEN <<br[id].parentId>> \o GetAncestors(br, br[id].parentId)
  ELSE <<>>

\* getRoots()
GetRoots(br, ord) == SelectSeq(ord, LAMBDA id : br[id].parentId = Null)

\* The cursor addToHistory works with.
EffectiveIndex(b) ==
  IF b.historyIndex # Undef THEN b.historyIndex ELSE Max(0, Len(b.history) - 1)

\* getHistoryIndex(): a missing cursor points at the last entry
GetHistoryIndex(br, id) ==
  IF id \notin DOMAIN br THEN -1
  ELSE IF br[id].historyIndex = Undef THEN Len(br[id].history) - 1
  ELSE br[id].historyIndex

HasEntryAt(history, i) == i >= 0 /\ i < Len(history)

\* The trim keeping one entry too many
TrimHistoryLate(history) ==
  IF Len(history) > HISTORY_LIMIT + 1 THEN Last(history, HISTORY_LIMIT + 1)
  ELSE history

\* addToHistory(): the history after the new entry is appended and trimmed
TrimHistory(history) ==
  IF Len(history) > HISTORY_LIMIT THEN Last(history, HISTORY_LIMIT) ELSE history

TrimIndex(history, newIndex) ==
  IF Len(history) > HISTORY_LIMIT
  THEN Max(0, newIndex - (Len(history) - HISTORY_LIMIT))
  ELSE newIndex

\* addToHistory() keeping the forward entries
KeepForward(history, historyIndex) == history

\* addToHistory(): smart branching, the entries kept before the append
TruncateForward(history, historyIndex) ==
  IF historyIndex < Len(history) - 1 THEN Prefix(history, historyIndex + 1)
  ELSE history

\* addToHistory() comparing the url with the last entry, not the cursor's
AddToHistoryPathLast(br, id, url, isBreadcrumbNav) ==
  IF id \notin DOMAIN br THEN "unknown"
  ELSE IF url = "" THEN "nourl"
  ELSE IF isBreadcrumbNav THEN "breadcrumb"
  ELSE IF Len(br[id].history) > 0
          /\ br[id].history[Len(br[id].history)].url = url THEN "same"
  ELSE "append"

\* addToHistory(): which of its paths a call takes
AddToHistoryPath(br, id, url, isBreadcrumbNav) ==
  IF id \notin DOMAIN br THEN "unknown"
  ELSE IF url = "" THEN "nourl"
  ELSE IF isBreadcrumbNav THEN "breadcrumb"
  ELSE IF HasEntryAt(br[id].history, EffectiveIndex(br[id]))
          /\ br[id].history[EffectiveIndex(br[id]) + 1].url = url THEN "same"
  ELSE "append"

AddToHistory(br, id, url, title, isBreadcrumbNav) ==
  LET path == AddToHistoryPath(br, id, url, isBreadcrumbNav)
  IN  IF path = "same" THEN
        LET i == EffectiveIndex(br[id]) + 1
        IN  IF title # "" /\ br[id].history[i].title # title
            THEN Update(br, id,
                   [history |-> [br[id].history EXCEPT ![i].title = title]])
            ELSE br
      ELSE IF path = "append" THEN
        LET kept == TruncateForward(br[id].history, EffectiveIndex(br[id]))
            grown == Append(kept, Entry(url, title))
        IN  Update(br, id,
              [history |-> TrimHistory(grown),
               historyIndex |-> TrimIndex(grown, Len(grown) - 1),
               url |-> url,
               title |-> IF title # "" THEN title ELSE br[id].title])
      ELSE br

AddToHistoryRet(br, id, url, isBreadcrumbNav) ==
  AddToHistoryPath(br, id, url, isBreadcrumbNav) = "append"

\* The index check off by one at the upper end
ValidIndexLoose(br, id, index) ==
  id \in DOMAIN br /\ ~(index < 0 \/ index > Len(br[id].history))

\* navigateToHistoryIndex()
ValidIndex(br, id, index) ==
  id \in DOMAIN br /\ ~(index < 0 \/ index >= Len(br[id].history))

NavigateToHistoryIndex(br, id, index) ==
  IF ValidIndex(br, id, index) THEN Update(br, id, [historyIndex |-> index])
  ELSE br

\* What it returns, history[index] or null: <<entry>>, or <<>> for no entry
NavigateRet(br, id, index) ==
  IF ValidIndex(br, id, index) /\ HasEntryAt(br[id].history, index)
  THEN <<br[id].history[index + 1]>> ELSE <<>>

\* destroy(): the memory part, and whether it goes ahead
CanDestroy(br, id) == id \in DOMAIN br /\ id # ROOT_BRANCH_ID

DeleteBranch(br, id) ==
  IF id = ROOT_BRANCH_ID THEN br ELSE Restrict(br, DOMAIN br \ {id})

DeleteOrder(ord, id) ==
  IF id = ROOT_BRANCH_ID THEN ord ELSE Remove(ord, id)

\* loadFromDB() trimming the history and leaving the cursor where it was
LoadRecordKeepIndex(rec) ==
  IF Len(rec.history) > HISTORY_LIMIT
  THEN [rec EXCEPT !.history = Last(rec.history, HISTORY_LIMIT)]
  ELSE rec

\* loadFromDB(): the record put in memory for a stored one
LoadRecord(rec) ==
  IF Len(rec.history) > HISTORY_LIMIT
  THEN [rec EXCEPT
          !.history = Last(rec.history, HISTORY_LIMIT),
          !.historyIndex =
             IF rec.historyIndex # Undef
             THEN Max(0, rec.historyIndex - (Len(rec.history) - HISTORY_LIMIT))
             ELSE Undef]
  ELSE rec

(***************************************************************************)
(* Durable store: a put or delete takes effect when it is issued, if the   *)
(* database module is available.                                           *)
(***************************************************************************)
DbPut(st, br, ids) ==
  IF dbAvail
  THEN [x \in DOMAIN st \cup (ids \cap DOMAIN br) |->
          IF x \in ids /\ x \in DOMAIN br THEN br[x] ELSE st[x]]
  ELSE st

DbDelete(st, ids) == IF dbAvail THEN Restrict(st, DOMAIN st \ ids) ELSE st

(***************************************************************************)
(* Suspended handlers                                                      *)
(***************************************************************************)
Task(k, tab, id, rest, val) ==
  [k |-> k, tab |-> tab, id |-> id, rest |-> rest, val |-> val]

\* The handler suspended in destroy(id), with `rest` still to destroy.
DestroyTask(id, rest, run) == Task("destroy", Null, id, rest, run)
\* After the await of a tab-added handler: tabs.update(tab, {branchId: id}).
TabDataTask(tab, id) == Task("tabdata", tab, id, <<>>, "")
\* After the first await of the tab-updated(title) handler.
TitleTask(id, value) == Task("title", Null, id, <<>>, value)
\* After the await of navigateToBreadcrumb.
CrumbTask == Task("crumb", Null, Null, <<>>, "")
\* After the await of the delayed ROOT setup.
ClearStaleTask == Task("clearStale", Null, Null, <<>>, "")

\* An external event is handled: one more of the bounded number.
Spend == events < MaxEvents /\ events' = events + 1

\* Record of a direct store call: the call, what it returned and the store
\* it was made on.
Call(op, id, arg, url, title, ret, before) ==
  [op |-> op, id |-> id, arg |-> arg, url |-> url, title |-> title,
   ret |-> ret, before |-> before]

NoOp == Call("none", Null, Null, "", "", FALSE, <<>>)

Reverse(s) == [i \in 1..Len(s) |-> s[Len(s) + 1 - i]]

\* Ascending sequence of a finite set of integers.
RECURSIVE SortedSeq(_)
SortedSeq(S) ==
  IF S = {} THEN <<>>
  ELSE LET m == CHOOSE x \in S : \A y \in S : x <= y
       IN  <<m>> \o SortedSeq(S \ {m})

\* destroyWithChildren(): the ids it destroys, in the order it destroys them
DestroyList(br, ord, id) == Reverse(GetDescendants(br, ord, id)) \o <<id>>

(***************************************************************************)
(* A run of destroy() calls awaited one after the other (`list`).  With    *)
(* the database, destroy() suspends before it removes the branch from      *)
(* memory; without it destroy() removes the branch at once and the caller  *)
(* suspends at its own await.  Either way the task left in `pending`       *)
(* removes its `id` when it resumes.                                       *)
(***************************************************************************)
StartBranches(br, list) ==
  IF dbAvail \/ list = <<>> THEN br ELSE DeleteBranch(br, Head(list))

StartOrder(ord, list) ==
  IF dbAvail \/ list = <<>> THEN ord ELSE DeleteOrder(ord, Head(list))

StartTasks(list, run) ==
  IF list = <<>> THEN {}
  ELSE IF dbAvail THEN {DestroyTask(Head(list), Tail(list), run)}
  ELSE IF Tail(list) = <<>> THEN {}
  ELSE {DestroyTask(Head(Tail(list)), Tail(Tail(list)), run)}

\* The durable delete destroy(id) issues when it is called.
StartStored(st, br, list) ==
  IF list # <<>> /\ CanDestroy(br, Head(list)) THEN DbDelete(st, {Head(list)})
  ELSE st

(***************************************************************************)
(* ensureRoot(tabId)                                                       *)
(***************************************************************************)
\* ensureRoot() making ROOT without the tab it is given
EnsureRootNoTab(br, tabId) ==
  IF ROOT_BRANCH_ID \in DOMAIN br THEN br
  ELSE Put(br, ROOT_BRANCH_ID, RootBranch(Null))

EnsureRoot(br, tabId) ==
  IF ROOT_BRANCH_ID \in DOMAIN br
  THEN IF tabId # Null /\ br[ROOT_BRANCH_ID].tabId # tabId
       THEN Update(br, ROOT_BRANCH_ID, [tabId |-> tabId])
       ELSE br
  ELSE Put(br, ROOT_BRANCH_ID, RootBranch(tabId))

\* create() losing the parent it is given
CreateParentless(br, id, tabId, parentId, url, title) ==
  Put(br, id, NewBranch(tabId, Null, url, title))

\* create(): parentId || null is the identity on ids and Null
Create(br, id, tabId, parentId, url, title) ==
  Put(br, id, NewBranch(tabId, parentId, url, title))

(***************************************************************************)
(* ensureAllTabsHaveBranches(): the synchronous part of the callbacks run  *)
(* for the tabs without a branchId, in tab order.  `first` is              *)
(* (!root && isFirstTab); the local `root` is only refreshed after an      *)
(* await, when every callback has already taken its branch.                *)
(***************************************************************************)
RECURSIVE Sweep(_, _, _, _, _, _, _)
Sweep(tabs, br, ord, nid, first, url, title) ==
  IF tabs = <<>> THEN [br |-> br, ord |-> ord, nid |-> nid, tasks |-> {}]
  ELSE IF first
  THEN LET r == Sweep(Tail(tabs), EnsureRoot(br, Head(tabs)),
                      PutOrder(ord, br, ROOT_BRANCH_ID), nid, FALSE, url, title)
       IN  [r EXCEPT !.tasks = @ \cup {TabDataTask(Head(tabs), ROOT_BRANCH_ID)}]
  ELSE LET r == Sweep(Tail(tabs),
                      Create(br, nid, Head(tabs), ROOT_BRANCH_ID, url, title),
                      Append(ord, nid), nid + 1, FALSE, url, title)
       IN  [r EXCEPT !.tasks = @ \cup {TabDataTask(Head(tabs), nid)}]

\* loadFromDB(): every stored record, trimmed, in key order
LoadAll(st) == [id \in DOMAIN st |-> LoadRecord(st[id])]

(***************************************************************************)
(* Initial states: the module has just been loaded, memory is empty; the   *)
(* durable store and the restored tabs are what an earlier session left.   *)
(***************************************************************************)
EmptyMap == [x \in {} |-> Null]

StoredRoot(tabId) == RootBranch(tabId)

\* Nothing stored: no tab yet, or two restored tabs without a branch.
FreshNoTab == [stored |-> EmptyMap, tabs |-> EmptyMap]
FreshTwoTabs == [stored |-> EmptyMap, tabs |-> (1 :> Null) @@ (2 :> Null)]
\* What a session with ROOT and one child left, both tabs restored.
Previous ==
  [stored |-> (ROOT_BRANCH_ID :> StoredRoot(1)) @@
              (1 :> Branch(2, ROOT_BRANCH_ID, "a", "t", <<Entry("a", "t")>>, 0)),
   tabs |-> (1 :> ROOT_BRANCH_ID) @@ (2 :> 1)]
\* A record of a version without ROOT and without cursors: a parentless
\* branch, its tab restored.
Legacy ==
  [stored |-> (1 :> Branch(1, Null, "b", "t",
                           <<Entry("a", ""), Entry("b", "t")>>, Undef)),
   tabs |-> (1 :> 1)]

Scenarios == {FreshNoTab, FreshTwoTabs, Previous, Legacy}

MaxOf(S) == IF S = {} THEN 0 ELSE CHOOSE x \in S : \A y \in S : x >= y

\* the state at startup, `other` the tabs of the tasks that are not selected
InitWith(sc, other) ==
  /\ branches = EmptyMap
  /\ order = <<>>
  /\ stored = sc.stored
  /\ liveTabs = DOMAIN sc.tabs
  /\ tabBranch = sc.tabs
  /\ selected = Null
  /\ tabsReady = (DOMAIN sc.tabs # {})
  /\ dbAvail \in BOOLEAN
  /\ pinnedSites = <<>>
  /\ otherTabs = other
  /\ navToken = FALSE
  /\ pending = {}
  /\ phase = "start"
  /\ nextId = MaxOf(DOMAIN sc.stored) + 1
  /\ nextTab = MaxOf(DOMAIN sc.tabs) + 1
  /\ events = 0
  /\ rootEnsured = FALSE
  /\ cascade = {}
  /\ lastOp = NoOp

InitFrom(sc) == InitWith(sc, {})

Init == \E sc \in Scenarios : InitFrom(sc)

(***************************************************************************)
(* branchEvents.initialize(): loadFromDB, then the listeners are attached  *)
(* and the migration sweep takes a branch for every tab without one.       *)
(* Nothing else of the engine runs before the listeners exist.             *)
(***************************************************************************)
Initialize(url, title) ==
  /\ phase = "start"
  /\ LET loaded == IF dbAvail THEN LoadAll(stored) ELSE EmptyMap
        lord == SortedSeq(DOMAIN loaded)
        orphans == SelectSeq(SortedSeq(liveTabs), LAMBDA t : tabBranch[t] = Null)
        r == Sweep(orphans, loaded, lord, nextId,
                   GetRoot(loaded) = Null, url, title)
    IN  /\ branches' = r.br
        /\ order' = r.ord
        /\ nextId' = r.nid
        /\ pending' = pending \cup r.tasks
        /\ stored' = DbPut(stored, r.br, {t.id : t \in r.tasks})
        /\ rootEnsured' = (rootEnsured \/
                           (orphans # <<>> /\ GetRoot(loaded) = Null))
  /\ phase' = "listening"
  /\ lastOp' = NoOp
  /\ UNCHANGED cascade
  /\ UNCHANGED <<liveTabs, tabBranch, selected, tabsReady, dbAvail, pinnedSites, otherTabs, navToken,
                 nextTab, events>>

(***************************************************************************)
(* tab-added                                                               *)
(***************************************************************************)
\* the branchId in the tab data is not looked at
HasBranchNever(branchId) == FALSE

\* if (tabData.branchId)
HasBranch(branchId) == branchId # Null

\* ROOT's tab taken as open whatever the tab lists hold
RootTabExistsAlways(live, root) == TRUE

\* rootTabExists: some task's tab list has ROOT's tabId
RootTabExists(live, root) == root.tabId \in live

\* the parent the tab data carries is not looked at
ParentForChildRoot(parentBranchId) == ROOT_BRANCH_ID

\* tabData.parentBranchId || rootBranchId
ParentForChild(parentBranchId) ==
  IF parentBranchId # Null THEN parentBranchId ELSE ROOT_BRANCH_ID

\* The handler, from the event to its first await.
TabAddedStep(url, title, parentBranchId, branchId) ==
  LET tabId == nextTab
      live == liveTabs \cup {tabId}
      root == GetRoot(branches)
  IN
  /\ phase # "start"
  /\ Spend
  /\ nextTab' = nextTab + 1
  /\ liveTabs' = live
  /\ tabBranch' = (tabId :> branchId) @@ tabBranch
  /\ tabsReady' = TRUE
  /\ UNCHANGED cascade
  /\ UNCHANGED <<selected, dbAvail, pinnedSites, otherTabs, navToken, phase>>
  /\ IF HasBranch(branchId)
     THEN \* already has a branch
          UNCHANGED <<branches, order, stored, pending, nextId, rootEnsured>>
     ELSE IF root = Null
     THEN \* CASE 1: this tab becomes ROOT
          /\ branches' = EnsureRoot(branches, tabId)
          /\ order' = PutOrder(order, branches, ROOT_BRANCH_ID)
          /\ stored' = DbPut(stored, branches', {ROOT_BRANCH_ID})
          /\ pending' = pending \cup {TabDataTask(tabId, ROOT_BRANCH_ID)}
          /\ rootEnsured' = TRUE
          /\ UNCHANGED nextId
     ELSE IF ~RootTabExists(live \cup otherTabs, branches[root])
     THEN \* CASE 2: ROOT's tab is gone, ROOT takes this tab
          /\ branches' = Update(branches, ROOT_BRANCH_ID, [tabId |-> tabId])
          /\ stored' = DbPut(stored, branches', {ROOT_BRANCH_ID})
          /\ pending' = pending \cup {TabDataTask(tabId, ROOT_BRANCH_ID)}
          /\ UNCHANGED <<order, nextId, rootEnsured>>
     ELSE \* CASE 3: a child of the supplied parent, or of ROOT
          LET parentId == ParentForChild(parentBranchId)
          IN  /\ branches' = Create(branches, nextId, tabId, parentId, url, title)
              /\ order' = Append(order, nextId)
              /\ stored' = DbPut(stored, branches', {nextId})
              /\ pending' = pending \cup {TabDataTask(tabId, nextId)}
              /\ nextId' = nextId + 1
              /\ UNCHANGED rootEnsured

TabAdded(url, title, parentBranchId, branchId) ==
  /\ TabAddedStep(url, title, parentBranchId, branchId)
  /\ lastOp' = NoOp

\* The same handler, with the event and the store it found on record.
TabAddedCall(url, title, parentBranchId, branchId) ==
  /\ TabAddedStep(url, title, parentBranchId, branchId)
  /\ lastOp' = Call("tab-added", nextTab, parentBranchId, url, title,
                    HasBranch(branchId), branches)

\* the callback ends without writing the branchId into the tab data
ResumeTabDataLost(p) ==
  /\ p \in pending /\ p.k = "tabdata"
  /\ pending' = pending \ {p}
  /\ lastOp' = NoOp
  /\ UNCHANGED cascade
  /\ UNCHANGED <<branches, order, stored, liveTabs, tabBranch, selected,
                 tabsReady, dbAvail, pinnedSites, otherTabs, navToken, phase, nextId, nextTab, events,
                 rootEnsured>>

\* The rest of a tab-added handler or sweep callback, after its await.
ResumeTabData(p) ==
  /\ p \in pending /\ p.k = "tabdata"
  /\ pending' = pending \ {p}
  /\ tabBranch' = IF p.tab \in liveTabs THEN [tabBranch EXCEPT ![p.tab] = p.id]
                  ELSE tabBranch
  /\ lastOp' = NoOp
  /\ UNCHANGED cascade
  /\ UNCHANGED <<branches, order, stored, liveTabs, selected, tabsReady, dbAvail, pinnedSites, otherTabs,
                 navToken, phase, nextId, nextTab, events, rootEnsured>>

(***************************************************************************)
(* tab-destroyed: ROOT is kept, any other branch goes with its descendants *)
(***************************************************************************)
TabDestroyedStep(tabId) ==
  LET branch == GetByTabId(branches, order, tabId)
      list == IF branch = Null \/ IsRoot(branch) THEN <<>>
              ELSE DestroyList(branches, order, branch)
  IN
  /\ phase # "start"
  /\ Spend
  /\ tabId \in liveTabs
  /\ liveTabs' = liveTabs \ {tabId}
  /\ tabBranch' = Restrict(tabBranch, liveTabs \ {tabId})
  /\ selected' = IF selected = tabId THEN Null ELSE selected
  /\ branches' = StartBranches(branches, list)
  /\ order' = StartOrder(order, list)
  /\ stored' = StartStored(stored, branches, list)
  /\ pending' = pending \cup StartTasks(list, "cascade")
  /\ cascade' = cascade \cup SeqRange(list)
  /\ UNCHANGED <<tabsReady, dbAvail, pinnedSites, otherTabs, navToken, phase, nextId, nextTab,
                 rootEnsured>>

TabDestroyed(tabId) ==
  /\ TabDestroyedStep(tabId)
  /\ lastOp' = NoOp

\* destroy() goes on after its await (or its caller does): the branch leaves
\* memory and the next destroy() of the run is called.
\* the destroy call completes and leaves the branch in memory
ResumeDestroyStepKept(p) ==
  /\ p \in pending /\ p.k = "destroy"
  /\ pending' = (pending \ {p}) \cup
                  (IF p.rest = <<>> THEN {}
                   ELSE {DestroyTask(Head(p.rest), Tail(p.rest), p.val)})
  /\ stored' = StartStored(stored, branches, p.rest)
  /\ UNCHANGED <<branches, order, cascade>>
  /\ UNCHANGED <<liveTabs, tabBranch, selected, tabsReady, dbAvail, pinnedSites, otherTabs, navToken,
                 phase, nextId, nextTab, events, rootEnsured>>

ResumeDestroyStep(p) ==
  /\ p \in pending /\ p.k = "destroy"
  /\ branches' = DeleteBranch(branches, p.id)
  /\ order' = DeleteOrder(order, p.id)
  /\ pending' = (pending \ {p}) \cup
                  (IF p.rest = <<>> THEN {}
                   ELSE {DestroyTask(Head(p.rest), Tail(p.rest), p.val)})
  /\ stored' = StartStored(stored, branches', p.rest)
  /\ UNCHANGED cascade
  /\ UNCHANGED <<liveTabs, tabBranch, selected, tabsReady, dbAvail, pinnedSites, otherTabs, navToken,
                 phase, nextId, nextTab, events, rootEnsured>>

ResumeDestroy(p) ==
  /\ ResumeDestroyStep(p)
  /\ lastOp' = NoOp

(***************************************************************************)
(* tab-updated.  The branchEvents listener runs first, the branchPanel     *)
(* listener after it copies the tab's url or title when it is not empty.   *)
(***************************************************************************)
TabUpdatedUrlStep(tabId, value, title) ==
  LET branch == GetByTabId(branches, order, tabId)
      path == AddToHistoryPath(branches, branch, value, navToken)
      added == AddToHistory(branches, branch, value, title, navToken)
  IN
  /\ phase # "start"
  /\ tabId \in liveTabs
  /\ branch # Null
  /\ Spend
  /\ navToken' = FALSE
  /\ branches' = IF value # "" THEN Update(added, branch, [url |-> value])
                 ELSE added
  /\ stored' = IF branches' # branches THEN DbPut(stored, branches', {branch})
               ELSE stored
  /\ UNCHANGED cascade
  /\ UNCHANGED <<order, liveTabs, tabBranch, selected, tabsReady, dbAvail, pinnedSites, otherTabs,
                 pending, phase, nextId, nextTab, rootEnsured>>

TabUpdatedUrl(tabId, value, title) ==
  /\ TabUpdatedUrlStep(tabId, value, title)
  /\ lastOp' = NoOp

TabUpdatedTitleStep(tabId, value) ==
  LET branch == GetByTabId(branches, order, tabId)
  IN
  /\ phase # "start"
  /\ tabId \in liveTabs
  /\ branch # Null
  /\ Spend
  /\ branches' = Update(branches, branch, [title |-> value])
  /\ stored' = DbPut(stored, branches', {branch})
  /\ pending' = pending \cup {TitleTask(branch, value)}
  /\ UNCHANGED cascade
  /\ UNCHANGED <<order, liveTabs, tabBranch, selected, tabsReady, dbAvail, pinnedSites, otherTabs,
                 navToken, phase, nextId, nextTab, rootEnsured>>

TabUpdatedTitle(tabId, value) ==
  /\ TabUpdatedTitleStep(tabId, value)
  /\ lastOp' = NoOp

\* the last entry takes the title whatever its url is
BackfillTitleAnyUrl(br, id, value) ==
  IF id \notin DOMAIN br THEN br
  ELSE LET history == br[id].history
           n == Len(history)
       IN  IF n > 0 /\ history[n].title = ""
           THEN Update(br, id, [history |-> [history EXCEPT ![n].title = value]])
           ELSE br

\* The title of the last entry is filled in when its url is the branch's
\* url and it has no title yet.
BackfillTitle(br, id, value) ==
  IF id \notin DOMAIN br THEN br
  ELSE LET history == br[id].history
           n == Len(history)
       IN  IF n > 0 /\ history[n].url = br[id].url /\ history[n].title = ""
           THEN Update(br, id, [history |-> [history EXCEPT ![n].title = value]])
           ELSE br

ResumeTitleStep(p) ==
  /\ p \in pending /\ p.k = "title"
  /\ pending' = pending \ {p}
  /\ branches' = BackfillTitle(branches, p.id, p.val)
  /\ stored' = IF branches' # branches THEN DbPut(stored, branches', {p.id})
               ELSE stored
  /\ UNCHANGED cascade
  /\ UNCHANGED <<order, liveTabs, tabBranch, selected, tabsReady, dbAvail, pinnedSites, otherTabs,
                 navToken, phase, nextId, nextTab, events, rootEnsured>>

ResumeTitle(p) ==
  /\ ResumeTitleStep(p)
  /\ lastOp' = NoOp

\* tab-selected: only lastActiveAt is written, which is not modelled.
TabSelected(tabId) ==
  /\ phase # "start"
  /\ Spend
  /\ tabId \in liveTabs
  /\ selected # tabId
  /\ selected' = tabId
  /\ lastOp' = NoOp
  /\ UNCHANGED cascade
  /\ UNCHANGED <<branches, order, stored, liveTabs, tabBranch, tabsReady, dbAvail, pinnedSites, otherTabs,
                 navToken, pending, phase, nextId, nextTab,
                 rootEnsured>>

(***************************************************************************)
(* Breadcrumb click: navigateToBreadcrumb(branchId, index, url, tabId)     *)
(***************************************************************************)
\* The click handler, up to the await of navigateToHistoryIndex.
NavigateToBreadcrumbStep(branchId, index) ==
  /\ phase # "start"
  /\ branchId \in DOMAIN branches
  /\ index \in 0..Len(branches[branchId].history)
  /\ Spend
  /\ branches' = NavigateToHistoryIndex(branches, branchId, index)
  /\ stored' = IF ValidIndex(branches, branchId, index)
               THEN DbPut(stored, branches', {branchId}) ELSE stored
  /\ pending' = IF ValidIndex(branches, branchId, index)
                THEN pending \cup {CrumbTask} ELSE pending
  /\ UNCHANGED cascade
  /\ UNCHANGED <<order, liveTabs, tabBranch, selected, tabsReady, dbAvail, pinnedSites, otherTabs,
                 navToken, phase, nextId, nextTab, rootEnsured>>

NavigateToBreadcrumb(branchId, index) ==
  /\ NavigateToBreadcrumbStep(branchId, index)
  /\ lastOp' = NoOp

\* The click handler after its await: the token is set and the webview is
\* told to load the entry's url.
ResumeCrumbStep(p) ==
  /\ p \in pending /\ p.k = "crumb"
  /\ pending' = pending \ {p}
  /\ navToken' = TRUE
  /\ UNCHANGED cascade
  /\ UNCHANGED <<branches, order, stored, liveTabs, tabBranch, selected,
                 tabsReady, dbAvail, pinnedSites, otherTabs, phase, nextId, nextTab, events,
                 rootEnsured>>

ResumeCrumb(p) ==
  /\ ResumeCrumbStep(p)
  /\ lastOp' = NoOp

(***************************************************************************)
(* Reparenting.  handleDragEnd is in branchPanel.js; the store's           *)
(* isDescendant and reparent that it calls are not in the source files and *)
(* follow the design text: reject ROOT, the branch itself and its          *)
(* descendants as parent, take null for ROOT, refuse unknown ids (an       *)
(* invalid mutation is refused, never partially applied), else reassign    *)
(* parentId.                                                               *)
(***************************************************************************)
\* isDescendant(a, b): b is below a
IsDescendant(br, ord, a, b) == b \in SeqRange(GetDescendants(br, ord, a))

ReparentOk(br, ord, branchId, newParentId) ==
  LET parent == IF newParentId # Null THEN newParentId ELSE ROOT_BRANCH_ID
  IN  /\ branchId \in DOMAIN br
      /\ parent \in DOMAIN br
      /\ ~IsRoot(branchId)
      /\ parent # branchId
      /\ ~IsDescendant(br, ord, branchId, parent)

\* reparent() storing the target as it is given, null included
ReparentRaw(br, ord, branchId, newParentId) ==
  IF ReparentOk(br, ord, branchId, newParentId)
  THEN Update(br, branchId, [parentId |-> newParentId])
  ELSE br

Reparent(br, ord, branchId, newParentId) ==
  IF ReparentOk(br, ord, branchId, newParentId)
  THEN Update(br, branchId,
         [parentId |-> IF newParentId # Null THEN newParentId
                       ELSE ROOT_BRANCH_ID])
  ELSE br

\* handleDragEnd() applying the drop without validating it
HandleDragEndUnchecked(draggedBranchId, targetParentId) ==
  LET effectiveParentId == IF targetParentId # Null THEN targetParentId
                           ELSE ROOT_BRANCH_ID
      isValid == /\ draggedBranchId # Null
                 /\ ~IsRoot(draggedBranchId)
                 /\ draggedBranchId # effectiveParentId
                 /\ ~IsDescendant(branches, order, draggedBranchId,
                                  effectiveParentId)
  IN
  /\ phase # "start"
  /\ Spend
  /\ draggedBranchId \in DOMAIN branches
  /\ targetParentId \in DOMAIN branches \cup {Null}
  /\ branches' = Update(branches, draggedBranchId,
                        [parentId |-> effectiveParentId])
  /\ stored' = IF branches' # branches
               THEN DbPut(stored, branches', {draggedBranchId}) ELSE stored
  /\ lastOp' = Call("reparent", draggedBranchId, targetParentId, "", "",
                    isValid /\ ReparentOk(branches, order, draggedBranchId,
                                          targetParentId), <<>>)
  /\ UNCHANGED cascade
  /\ UNCHANGED <<order, liveTabs, tabBranch, selected, tabsReady, dbAvail, pinnedSites, otherTabs,
                 navToken, pending, phase, nextId, nextTab,
                 rootEnsured>>

HandleDragEnd(draggedBranchId, targetParentId) ==
  LET effectiveParentId == IF targetParentId # Null THEN targetParentId
                           ELSE ROOT_BRANCH_ID
      isValid == /\ draggedBranchId # Null
                 /\ ~IsRoot(draggedBranchId)
                 /\ draggedBranchId # effectiveParentId
                 /\ ~IsDescendant(branches, order, draggedBranchId,
                                  effectiveParentId)
  IN
  /\ phase # "start"
  /\ Spend
  /\ draggedBranchId \in DOMAIN branches
  /\ targetParentId \in DOMAIN branches \cup {Null}
  /\ branches' = IF isValid
                 THEN Reparent(branches, order, draggedBranchId, targetParentId)
                 ELSE branches
  /\ stored' = IF branches' # branches
               THEN DbPut(stored, branches', {draggedBranchId}) ELSE stored
  /\ lastOp' = Call("reparent", draggedBranchId, targetParentId, "", "",
                    isValid /\ ReparentOk(branches, order, draggedBranchId,
                                          targetParentId), <<>>)
  /\ UNCHANGED cascade
  /\ UNCHANGED <<order, liveTabs, tabBranch, selected, tabsReady, dbAvail, pinnedSites, otherTabs,
                 navToken, pending, phase, nextId, nextTab,
                 rootEnsured>>

(***************************************************************************)
(* Reconciler: clearStaleBranches().  destroy() is not awaited: with the   *)
(* database each stale branch leaves memory when its destroy() resumes,    *)
(* without it at once.                                                     *)
(***************************************************************************)
\* a branch also counts as stale when its parent's tab is gone
IsStaleOrChild(br, id) ==
  /\ tabsReady
  /\ \/ br[id].tabId = Null \/ br[id].tabId \notin liveTabs
     \/ /\ br[id].parentId \in DOMAIN br \ {ROOT_BRANCH_ID}
        /\ br[br[id].parentId].tabId \notin liveTabs

IsStale(br, id) ==
  tabsReady /\ (br[id].tabId = Null \/ br[id].tabId \notin liveTabs)

StaleBranches(br) == {id \in DOMAIN br \ {ROOT_BRANCH_ID} : IsStale(br, id)}

OrphanBranches(br) ==
  {id \in DOMAIN br \ {ROOT_BRANCH_ID} :
     ~IsStale(br, id) /\ br[id].parentId = Null /\ GetRoot(br) # Null}

ClearStaleBranches(br) ==
  LET adopted == [id \in DOMAIN br |->
                    IF id \in OrphanBranches(br)
                    THEN [br[id] EXCEPT !.parentId = ROOT_BRANCH_ID]
                    ELSE br[id]]
  IN  IF dbAvail THEN adopted
      ELSE Restrict(adopted, DOMAIN br \ StaleBranches(br))

ClearStaleOrder(br, ord) ==
  IF dbAvail THEN ord
  ELSE SelectSeq(ord, LAMBDA id : id \notin StaleBranches(br))

ClearStaleTasks(br) ==
  IF dbAvail THEN {DestroyTask(id, <<>>, "single") : id \in StaleBranches(br)} ELSE {}

ClearStaleStored(st, br) ==
  DbDelete(DbPut(st, ClearStaleBranches(br), OrphanBranches(br)),
           StaleBranches(br))

ReconcileStep ==
  /\ phase # "start"
  /\ Spend
  /\ branches' = ClearStaleBranches(branches)
  /\ order' = ClearStaleOrder(branches, order)
  /\ pending' = pending \cup ClearStaleTasks(branches)
  /\ stored' = ClearStaleStored(stored, branches)
  /\ UNCHANGED cascade
  /\ UNCHANGED <<liveTabs, tabBranch, selected, tabsReady, dbAvail, pinnedSites, otherTabs, navToken,
                 phase, nextId, nextTab, rootEnsured>>

Reconcile ==
  /\ ReconcileStep
  /\ lastOp' = NoOp

(***************************************************************************)
(* branchPanel.initialize(): the delayed ROOT setup, 500 ms after start.   *)
(***************************************************************************)
DelayedRootSetup ==
  LET selectedTab == IF tabsReady THEN selected ELSE Null
  IN
  /\ phase = "listening"
  /\ Spend
  /\ phase' = "settled"
  /\ lastOp' = NoOp
  /\ UNCHANGED cascade
  /\ UNCHANGED <<liveTabs, tabBranch, selected, tabsReady, dbAvail, pinnedSites, otherTabs, navToken,
                 nextId, nextTab>>
  /\ IF GetRoot(branches) = Null /\ selectedTab # Null
     THEN /\ branches' = EnsureRoot(branches, selectedTab)
          /\ order' = PutOrder(order, branches, ROOT_BRANCH_ID)
          /\ stored' = DbPut(stored, branches', {ROOT_BRANCH_ID})
          /\ pending' = pending \cup {ClearStaleTask}
          /\ rootEnsured' = TRUE
     ELSE /\ branches' = ClearStaleBranches(branches)
          /\ order' = ClearStaleOrder(branches, order)
          /\ pending' = pending \cup ClearStaleTasks(branches)
          /\ stored' = ClearStaleStored(stored, branches)
          /\ UNCHANGED rootEnsured

ResumeClearStale(p) ==
  /\ p \in pending /\ p.k = "clearStale"
  /\ branches' = ClearStaleBranches(branches)
  /\ order' = ClearStaleOrder(branches, order)
  /\ pending' = (pending \ {p}) \cup ClearStaleTasks(branches)
  /\ stored' = ClearStaleStored(stored, branches)
  /\ lastOp' = NoOp
  /\ UNCHANGED cascade
  /\ UNCHANGED <<liveTabs, tabBranch, selected, tabsReady, dbAvail, pinnedSites, otherTabs, navToken,
                 phase, nextId, nextTab, events, rootEnsured>>

(***************************************************************************)
(* The engine driven by the tab source, the timers and the panel           *)
(***************************************************************************)
Next ==
  \/ \E url \in TreeUrls, title \in TreeTitles : Initialize(url, title)
  \/ \E url \in TreeUrls, title \in TreeTitles,
        parentBranchId \in DOMAIN branches \cup {Null},
        branchId \in DOMAIN branches \cup {Null} :
       TabAdded(url, title, parentBranchId, branchId)
  \/ \E p \in pending : ResumeTabData(p)
  \/ \E tabId \in liveTabs : TabDestroyed(tabId)
  \/ \E p \in pending : ResumeDestroy(p)
  \/ \E tabId \in liveTabs, value \in TreeUrls, title \in TreeTitles :
       TabUpdatedUrl(tabId, value, title)
  \/ \E tabId \in liveTabs, value \in TreeTitles : TabUpdatedTitle(tabId, value)
  \/ \E p \in pending : ResumeTitle(p)
  \/ \E tabId \in liveTabs : TabSelected(tabId)
  \/ \E branchId \in DOMAIN branches :
       \E index \in 0..Len(branches[branchId].history) :
         NavigateToBreadcrumb(branchId, index)
  \/ \E p \in pending : ResumeCrumb(p)
  \/ \E draggedBranchId \in DOMAIN branches,
        targetParentId \in DOMAIN branches \cup {Null} :
       HandleDragEnd(draggedBranchId, targetParentId)
  \/ Reconcile
  \/ DelayedRootSetup
  \/ \E p \in pending : ResumeClearStale(p)

Spec == Init /\ [][Next]_vars

(***************************************************************************)
(* The store called directly: destroy(branchId) and                        *)
(* destroyWithChildren(branchId) on any id, ROOT and unknown ids included, *)
(* between the tab events and Reconciler passes.                           *)
(***************************************************************************)
\* An id no branch has yet.
UnknownId == nextId

\* destroy() without its ROOT guard
DestroyAny(branchId) ==
  LET list == IF branchId \in DOMAIN branches THEN <<branchId>> ELSE <<>>
  IN
  /\ phase # "start"
  /\ Spend
  /\ branches' = IF dbAvail \/ list = <<>> THEN branches
                 ELSE Restrict(branches, DOMAIN branches \ {branchId})
  /\ order' = IF dbAvail \/ list = <<>> THEN order ELSE Remove(order, branchId)
  /\ stored' = DbDelete(stored, SeqRange(list))
  /\ pending' = pending \cup StartTasks(list, "any")
  /\ lastOp' = Call("destroy", branchId, Null, "", "", list # <<>>, branches)
  /\ UNCHANGED <<liveTabs, tabBranch, selected, tabsReady, dbAvail, pinnedSites, otherTabs, navToken,
                 phase, nextId, nextTab, rootEnsured, cascade>>

Destroy(branchId) ==
  LET list == IF CanDestroy(branches, branchId) THEN <<branchId>> ELSE <<>>
  IN
  /\ phase # "start"
  /\ Spend
  /\ branches' = StartBranches(branches, list)
  /\ order' = StartOrder(order, list)
  /\ stored' = StartStored(stored, branches, list)
  /\ pending' = pending \cup StartTasks(list, "single")
  /\ lastOp' = Call("destroy", branchId, Null, "", "",
                    CanDestroy(branches, branchId), branches)
  /\ UNCHANGED <<liveTabs, tabBranch, selected, tabsReady, dbAvail, pinnedSites, otherTabs, navToken,
                 phase, nextId, nextTab, rootEnsured, cascade>>

DestroyWithChildren(branchId) ==
  LET list == DestroyList(branches, order, branchId)
  IN
  /\ phase # "start"
  /\ Spend
  /\ branches' = StartBranches(branches, list)
  /\ order' = StartOrder(order, list)
  /\ stored' = StartStored(stored, branches, list)
  /\ pending' = pending \cup StartTasks(list, "cascade")
  /\ cascade' = cascade \cup
                  ((SeqRange(list) \cap DOMAIN branches) \ {ROOT_BRANCH_ID})
  /\ lastOp' = Call("destroyWithChildren", branchId, Null, "", "", TRUE,
                    branches)
  /\ UNCHANGED <<liveTabs, tabBranch, selected, tabsReady, dbAvail, pinnedSites, otherTabs, navToken,
                 phase, nextId, nextTab, rootEnsured>>

NextStore ==
  \/ \E url \in TreeUrls, title \in TreeTitles : Initialize(url, title)
  \/ \E url \in TreeUrls, title \in TreeTitles,
        parentBranchId \in DOMAIN branches \cup {Null},
        branchId \in DOMAIN branches \cup {Null} :
       TabAdded(url, title, parentBranchId, branchId)
  \/ \E p \in pending : ResumeTabData(p)
  \/ \E tabId \in liveTabs : TabDestroyed(tabId)
  \/ \E p \in pending : ResumeDestroy(p)
  \/ \E tabId \in liveTabs : TabSelected(tabId)
  \/ Reconcile
  \/ DelayedRootSetup
  \/ \E p \in pending : ResumeClearStale(p)
  \/ \E branchId \in DOMAIN branches \cup {ROOT_BRANCH_ID, UnknownId} :
       Destroy(branchId)
  \/ \E branchId \in DOMAIN branches \cup {ROOT_BRANCH_ID, UnknownId} :
       DestroyWithChildren(branchId)

SpecStore == Init /\ [][NextStore]_vars

(***************************************************************************)
(* The tab events alone, each tab-added event on record: the handlers of   *)
(* branchEvents and the panel's ROOT setup, which between them decide      *)
(* whether ROOT exists and whether its tab is open.                        *)
(***************************************************************************)
NextTabs ==
  \/ \E url \in TreeUrls, title \in TreeTitles : Initialize(url, title)
  \/ \E url \in TreeUrls, title \in TreeTitles,
        parentBranchId \in DOMAIN branches \cup {Null},
        branchId \in DOMAIN branches \cup {Null} :
       TabAddedCall(url, title, parentBranchId, branchId)
  \/ \E p \in pending : ResumeTabData(p)
  \/ \E tabId \in liveTabs : TabDestroyed(tabId)
  \/ \E p \in pending : ResumeDestroy(p)
  \/ \E tabId \in liveTabs : TabSelected(tabId)
  \/ Reconcile
  \/ DelayedRootSetup
  \/ \E p \in pending : ResumeClearStale(p)

SpecTabs == Init /\ [][NextTabs]_vars

(***************************************************************************)
(* The migration sweep: the one initialize() runs and a second run of      *)
(* ensureAllTabsHaveBranches() after it, among tab-added events.  The      *)
(* session may also start from a store that has ROOT while a restored tab  *)
(* has no branchId (its branch was never written).                         *)
(***************************************************************************)
RootAndStray ==
  [stored |-> (ROOT_BRANCH_ID :> StoredRoot(1)),
   tabs |-> (1 :> ROOT_BRANCH_ID) @@ (2 :> Null) @@ (3 :> Null)]

InitSweep == \E sc \in Scenarios \cup {RootAndStray} : InitFrom(sc)

\* The tabs without a branchId, in tab order.
TabsLacking == SelectSeq(SortedSeq(liveTabs), LAMBDA t : tabBranch[t] = Null)

\* ensureAllTabsHaveBranches() run once more; `ret` records that no callback
\* of a sweep and no tab-added handler was suspended when it was called.
SweepAgain(url, title) ==
  LET r == Sweep(TabsLacking, branches, order, nextId,
                 GetRoot(branches) = Null, url, title)
  IN  /\ phase # "start"
      /\ Spend
      /\ branches' = r.br
      /\ order' = r.ord
      /\ nextId' = r.nid
      /\ pending' = pending \cup r.tasks
      /\ stored' = DbPut(stored, r.br, {t.id : t \in r.tasks})
      /\ rootEnsured' = (rootEnsured \/
                         (TabsLacking # <<>> /\ GetRoot(branches) = Null))
      /\ lastOp' = Call("sweep", Null, Null, url, title,
                        \A q \in pending : q.k # "tabdata", branches)
      /\ UNCHANGED <<liveTabs, tabBranch, selected, tabsReady, dbAvail, pinnedSites, otherTabs,
                     navToken, phase, nextTab, cascade>>

NextSweep ==
  \/ \E url \in TreeUrls, title \in TreeTitles : Initialize(url, title)
  \/ \E url \in TreeUrls, title \in TreeTitles :
       TabAdded(url, title, Null, Null)
  \/ \E p \in pending : ResumeTabData(p)
  \/ \E url \in TreeUrls, title \in TreeTitles : SweepAgain(url, title)

SpecSweep == InitSweep /\ [][NextSweep]_vars

(***************************************************************************)
(* Breadcrumb clicks and the url updates of the tabs, with the click whose *)
(* navigation the webview has still to report on record.  A click is on    *)
(* record as "click" while its handler is suspended and as "navigating"    *)
(* once the handler has set the token and called webviews.update(tabId,    *)
(* url); the url update of that branch's tab with that url is the          *)
(* navigation the click caused.  Url updates are on record as "url", with  *)
(* the isBreadcrumbNav they passed to addToHistory as `arg` and whether    *)
(* they are the navigation of the click on record as `ret`.                *)
(***************************************************************************)
CrumbUrls == {"a", "b"}

Navigating == lastOp.op = "navigating"

\* The url update is the navigation the click on record caused.
Resulting(branch, value) ==
  Navigating /\ branch = lastOp.id /\ value = lastOp.url

BreadcrumbClick(branchId, index) ==
  /\ NavigateToBreadcrumbStep(branchId, index)
  /\ lastOp' = IF ValidIndex(branches, branchId, index)
               THEN Call("click", branchId, index,
                         branches[branchId].history[index + 1].url, "",
                         TRUE, <<>>)
               ELSE lastOp

ResumeClick(p) ==
  /\ ResumeCrumbStep(p)
  /\ lastOp' = IF lastOp.op = "click"
               THEN [lastOp EXCEPT !.op = "navigating"] ELSE lastOp

UrlUpdate(tabId, value, title) ==
  LET branch == GetByTabId(branches, order, tabId)
  IN  /\ TabUpdatedUrlStep(tabId, value, title)
      /\ lastOp' = IF \/ lastOp.op = "click"
                      \/ Navigating /\ ~Resulting(branch, value)
                   THEN lastOp
                   ELSE Call("url", branch, navToken, value, title,
                             Resulting(branch, value), branches)

NextCrumb ==
  \/ \E url \in CrumbUrls, title \in TreeTitles : Initialize(url, title)
  \/ \E branchId \in DOMAIN branches :
       \E index \in 0..Len(branches[branchId].history) :
         BreadcrumbClick(branchId, index)
  \/ \E p \in pending : ResumeClick(p)
  \/ \E tabId \in liveTabs, value \in CrumbUrls, title \in TreeTitles :
       UrlUpdate(tabId, value, title)

SpecCrumb == Init /\ [][NextCrumb]_vars

(***************************************************************************)
(* reparent(branchId, newParentId, index) called directly, on the trees    *)
(* the tab events build.  The store's reparent is not in the source files: *)
(* as the design text has it, a valid call reassigns parentId and          *)
(* persists.  getChildren() is the source's: the children of a parent in   *)
(* the iteration order of the store map.                                   *)
(***************************************************************************)
ReparentCall(branchId, newParentId, index) ==
  /\ phase # "start"
  /\ Spend
  /\ index \in 0..Len(GetChildren(branches, order,
                        IF newParentId # Null THEN newParentId
                        ELSE ROOT_BRANCH_ID))
  /\ branches' = Reparent(branches, order, branchId, newParentId)
  /\ stored' = IF branches' # branches
               THEN DbPut(stored, branches', {branchId}) ELSE stored
  /\ lastOp' = Call("reparentAt", branchId,
                    [parent |-> newParentId, index |-> index], "", "",
                    ReparentOk(branches, order, branchId, newParentId),
                    branches)
  /\ UNCHANGED <<order, liveTabs, tabBranch, selected, tabsReady, dbAvail, pinnedSites, otherTabs,
                 navToken, pending, phase, nextId, nextTab, rootEnsured,
                 cascade>>

NextReparent ==
  \/ \E url \in TreeUrls, title \in TreeTitles : Initialize(url, title)
  \/ \E url \in TreeUrls, title \in TreeTitles,
        parentBranchId \in DOMAIN branches \cup {Null},
        branchId \in DOMAIN branches \cup {Null} :
       TabAdded(url, title, parentBranchId, branchId)
  \/ \E p \in pending : ResumeTabData(p)
  \/ \E branchId \in DOMAIN branches,
        newParentId \in DOMAIN branches \cup {Null},
        index \in 0..Cardinality(DOMAIN branches) :
       ReparentCall(branchId, newParentId, index)

SpecReparent == Init /\ [][NextReparent]_vars

(***************************************************************************)
(* Properties                                                              *)
(***************************************************************************)
(* Histories.  The session starts from a stored branch below ROOT whose    *)
(* history is short, or as long as the limit or near it (longer ones were  *)
(* written before the limit existed), with its cursor anywhere or missing, *)
(* or from nothing stored.  The tab source reports navigations and titles, *)
(* breadcrumbs are clicked, and addToHistory and navigateToHistoryIndex    *)
(* are called directly with any arguments.                                 *)
(***************************************************************************)
HistUrls == {"", "a", "b"}
HistTitles == {"", "u"}

\* n entries, urls alternating, every third without a title
Hist(n) ==
  [i \in 1..n |-> Entry(IF i % 2 = 1 THEN "a" ELSE "c",
                        IF i % 3 = 0 THEN "" ELSE "t")]

HistLens == (0..ShortLen) \cup ((HISTORY_LIMIT - 1)..(HISTORY_LIMIT + Over))

Cursors(n) ==
  {Undef} \cup ({0, n - 2, n - 1} \cap (0..(n - 1)))
          \cup (IF n = 0 THEN {-1} ELSE {})

WithHistory(n, c) ==
  LET at == IF c = Undef THEN n ELSE c + 1
  IN
  [stored |-> (ROOT_BRANCH_ID :> StoredRoot(1)) @@
              (1 :> Branch(2, ROOT_BRANCH_ID,
                           IF n = 0 THEN "" ELSE Hist(n)[at].url,
                           IF n = 0 THEN "" ELSE Hist(n)[at].title,
                           Hist(n), c)),
   tabs |-> (1 :> ROOT_BRANCH_ID) @@ (2 :> 1)]

HistScenarios ==
  {FreshTwoTabs} \cup
  UNION {{WithHistory(n, c) : c \in Cursors(n)} : n \in HistLens}

InitHist == \E sc \in HistScenarios : InitFrom(sc) /\ dbAvail

\* addToHistory(branchId, url, title, {isBreadcrumbNav}) called directly
AddToHistoryCall(branchId, url, title, isBreadcrumbNav) ==
  /\ phase # "start"
  /\ Spend
  /\ branches' = AddToHistory(branches, branchId, url, title, isBreadcrumbNav)
  /\ stored' = IF branches' # branches
               THEN DbPut(stored, branches', {branchId}) ELSE stored
  /\ lastOp' = Call("addToHistory", branchId, isBreadcrumbNav, url, title,
                    AddToHistoryRet(branches, branchId, url, isBreadcrumbNav),
                    branches)
  /\ UNCHANGED <<order, liveTabs, tabBranch, selected, tabsReady, dbAvail, pinnedSites, otherTabs,
                 navToken, pending, phase, nextId, nextTab, rootEnsured,
                 cascade>>

\* navigateToHistoryIndex(branchId, index) called directly
NavigateCall(branchId, index) ==
  /\ phase # "start"
  /\ Spend
  /\ branches' = NavigateToHistoryIndex(branches, branchId, index)
  /\ stored' = IF ValidIndex(branches, branchId, index)
               THEN DbPut(stored, branches', {branchId}) ELSE stored
  /\ lastOp' = Call("navigateToHistoryIndex", branchId, index, "", "",
                    NavigateRet(branches, branchId, index), branches)
  /\ UNCHANGED <<order, liveTabs, tabBranch, selected, tabsReady, dbAvail, pinnedSites, otherTabs,
                 navToken, pending, phase, nextId, nextTab, rootEnsured,
                 cascade>>

\* Indexes worth calling with: around both ends of the history and the cursor
IndexesOf(br, id) ==
  IF id \notin DOMAIN br THEN {0}
  ELSE {-1, 0, Len(br[id].history) - 1, Len(br[id].history)}

\* A step of a run that looks at histories: within its number of calls.
Counted == events' <= MaxCalls

NextHist ==
  \/ \E url \in HistUrls, title \in HistTitles : Initialize(url, title)
  \/ \E url \in HistUrls, title \in HistTitles :
       TabAdded(url, title, Null, Null) /\ Counted
  \/ \E p \in pending : ResumeTabData(p)
  \/ \E tabId \in liveTabs, value \in HistUrls, title \in HistTitles :
       TabUpdatedUrl(tabId, value, title) /\ Counted
  \/ \E tabId \in liveTabs, value \in HistTitles :
       TabUpdatedTitle(tabId, value) /\ Counted
  \/ \E p \in pending : ResumeTitle(p)
  \/ \E branchId \in DOMAIN branches :
       \E index \in IndexesOf(branches, branchId) \cap
                      (0..Len(branches[branchId].history)) :
         NavigateToBreadcrumb(branchId, index) /\ Counted
  \/ \E p \in pending : ResumeCrumb(p)
  \/ \E branchId \in DOMAIN branches, url \in HistUrls,
        title \in HistTitles, isBreadcrumbNav \in BOOLEAN :
       AddToHistoryCall(branchId, url, title, isBreadcrumbNav) /\ Counted
  \/ \E branchId \in DOMAIN branches \cup {UnknownId} :
       \E index \in IndexesOf(branches, branchId) :
         NavigateCall(branchId, index) /\ Counted

SpecHist == InitHist /\ [][NextHist]_vars

(***************************************************************************)
ParentOf(id) == branches[id].parentId

\* The branches met by following parentId links from id, at most n of them.
RECURSIVE ChainAbove(_, _)
ChainAbove(id, n) ==
  IF n = 0 \/ id \notin DOMAIN branches \/ ParentOf(id) = Null THEN {}
  ELSE {ParentOf(id)} \cup ChainAbove(ParentOf(id), n - 1)

Parentless == {id \in DOMAIN branches : ParentOf(id) = Null}

\* C1: every branch with a non-null parentId has a parent that is in the
\* store, in every state reachable through tab events, Reconciler passes
\* and reparent drops.
C1_ParentExists ==
  \A id \in DOMAIN branches :
    ParentOf(id) # Null => ParentOf(id) \in DOMAIN branches

\* C2: the parent graph is acyclic: following parentId links from any
\* branch never comes back to that branch.
C2_Acyclic ==
  \A id \in DOMAIN branches :
    id \notin ChainAbove(id, Cardinality(DOMAIN branches))

\* A drop has just moved a branch below a parent other than ROOT.
C2_Witness ==
  /\ lastOp.op = "reparent" /\ lastOp.ret
  /\ lastOp.arg # ROOT_BRANCH_ID
  /\ ParentOf(lastOp.id) = lastOp.arg

\* C3 as stated: once ensureRoot has been invoked, exactly one branch is
\* parentless and it is ROOT.
C3_OneParentless ==
  rootEnsured => Parentless = {ROOT_BRANCH_ID}

\* The parentless records of the durable store the session starts with.
StoredOrphans ==
  {id \in UNION {DOMAIN sc.stored : sc \in Scenarios} \ {ROOT_BRANCH_ID} :
     \E sc \in Scenarios :
       id \in DOMAIN sc.stored /\ sc.stored[id].parentId = Null}

\* C3 amended: once ensureRoot has been invoked, ROOT is in the store and is
\* parentless, and any other parentless branch is a parentless record loaded
\* from the durable store, which no operation of the session creates.
C3_RootParentless ==
  rootEnsured =>
    /\ ROOT_BRANCH_ID \in Parentless
    /\ Parentless \ {ROOT_BRANCH_ID} \subseteq StoredOrphans

\* ensureRoot has run and branches were created below ROOT afterwards.
C3_Witness ==
  /\ rootEnsured
  /\ Parentless = {ROOT_BRANCH_ID}
  /\ \E id \in DOMAIN branches : ParentOf(id) = ROOT_BRANCH_ID /\ id >= 2

\* No destroyWithChildren run is suspended.
CascadesDone == ~\E p \in pending : p.k = "destroy" /\ p.val = "cascade"

\* C10: once destroyWithChildren has completed, the branch and all its
\* descendants are gone and no surviving branch has a destroyed id as
\* parent, whatever handlers ran at its suspension points.
C10_CascadeComplete ==
  CascadesDone =>
    /\ cascade \cap DOMAIN branches = {}
    /\ \A id \in DOMAIN branches : ParentOf(id) \notin cascade

\* C4: ROOT is never destroyed: once it is in the store it stays there
\* through destroy, destroyWithChildren, tab-destroyed events (one for
\* ROOT's own tab included) and Reconciler passes, and destroy(ROOT) returns
\* false and leaves the store as it was.
C4_RootKept ==
  [][/\ ROOT_BRANCH_ID \in DOMAIN branches
          => ROOT_BRANCH_ID \in DOMAIN branches'
     /\ lastOp'.op = "destroy" /\ lastOp'.id = ROOT_BRANCH_ID
          => /\ lastOp'.ret = FALSE
             /\ branches' = branches
             /\ stored' = stored
             /\ pending' = pending]_vars

\* destroy(ROOT) has been called after ROOT's own tab was destroyed, and
\* ROOT is in the store.
C4_Witness ==
  /\ lastOp.op = "destroy" /\ lastOp.id = ROOT_BRANCH_ID
  /\ ROOT_BRANCH_ID \in DOMAIN lastOp.before
  /\ ROOT_BRANCH_ID \in DOMAIN branches
  /\ branches[ROOT_BRANCH_ID].tabId \notin liveTabs \cup {Null}

\* The cursor of a branch record, a missing one pointing at the last entry.
CursorOf(b) == IF b.historyIndex = Undef THEN Len(b.history) - 1
               ELSE b.historyIndex

\* The last call was op on a branch that was in the store.
Called(op) == lastOp.op = op /\ lastOp.id \in DOMAIN lastOp.before

Before == lastOp.before[lastOp.id]
After == branches[lastOp.id]
NewEntry == [url |-> lastOp.url, title |-> lastOp.title]

\* C5: after every operation that touches a history the cursor is in
\* -1 .. history.length - 1, a missing cursor counting as the last entry.
C5_CursorInRange ==
  \A id \in DOMAIN branches :
    /\ CursorOf(branches[id]) >= -1
    /\ CursorOf(branches[id]) <= Len(branches[id].history) - 1
    /\ branches[id].historyIndex \in {Undef} \cup
         (-1..(Len(branches[id].history) - 1))

\* A stored record longer than the limit, its cursor on its last entry, has
\* been loaded: trimmed, its cursor on the last entry still.
C5_Witness ==
  /\ 1 \in DOMAIN branches \cap DOMAIN stored
  /\ Len(stored[1].history) > HISTORY_LIMIT
  /\ stored[1].historyIndex = Len(stored[1].history) - 1
  /\ Len(branches[1].history) = HISTORY_LIMIT
  /\ branches[1].historyIndex = HISTORY_LIMIT - 1

\* C6: no history holds more than 50 entries; an append to a history of 50
\* evicts the oldest entries so that exactly the last 50 remain, and the
\* cursor, moved back by the number evicted, points at the new entry.
C6_LimitKept ==
  /\ \A id \in DOMAIN branches : Len(branches[id].history) <= HISTORY_LIMIT
  /\ Called("addToHistory") /\ lastOp.ret
       /\ Len(Before.history) = HISTORY_LIMIT
     => LET i == CursorOf(Before)
            grown == SubSeq(Before.history, 1, i + 1) \o <<NewEntry>>
            evicted == IF Len(grown) > HISTORY_LIMIT
                       THEN Len(grown) - HISTORY_LIMIT ELSE 0
        IN  /\ After.history = SubSeq(grown, evicted + 1, Len(grown))
            /\ After.historyIndex = (Len(grown) - 1) - evicted
            /\ After.history[After.historyIndex + 1] = NewEntry
            /\ Len(After.history) = Len(grown) - evicted

\* An entry was appended at the end of a history of 50: the oldest is gone.
C6_Witness ==
  /\ Called("addToHistory") /\ lastOp.ret
  /\ Len(Before.history) = HISTORY_LIMIT
  /\ CursorOf(Before) = HISTORY_LIMIT - 1
  /\ Len(After.history) = HISTORY_LIMIT
  /\ After.history[1] = Before.history[2]
  /\ After.historyIndex = HISTORY_LIMIT - 1

\* The call is addToHistory(branch, url) with a url other than the one at
\* the cursor, the cursor not at the tail.
SmartBranchingCase ==
  /\ Called("addToHistory") /\ lastOp.arg = FALSE
  /\ CursorOf(Before) >= 0
  /\ CursorOf(Before) < Len(Before.history) - 1
  /\ Before.history[CursorOf(Before) + 1].url # lastOp.url

SmartBranchingDone ==
  LET i == CursorOf(Before)
  IN  /\ After.history = SubSeq(Before.history, 1, i + 1) \o <<NewEntry>>
      /\ After.historyIndex = i + 1

\* C7 as stated: for any url different from the one at the cursor.
C7_SmartBranchingAnyUrl == SmartBranchingCase => SmartBranchingDone

\* C7 amended: addToHistory with a non-empty url different from the one at
\* cursor i, i not at the tail, discards the entries after i, appends the
\* new entry and sets the cursor to i + 1.
C7_SmartBranching ==
  SmartBranchingCase /\ lastOp.url # "" => SmartBranchingDone

\* From three entries with the cursor on the first, two are left.
C7_Witness ==
  /\ SmartBranchingCase /\ lastOp.url # ""
  /\ Len(Before.history) = 3 /\ CursorOf(Before) = 0
  /\ Len(After.history) = 2 /\ After.historyIndex = 1
  /\ After.history[1] = Before.history[1]
  /\ After.history[2].url = lastOp.url

\* The call is addToHistory with the url of the entry at the cursor.
SameUrlCase ==
  /\ Called("addToHistory")
  /\ CursorOf(Before) >= 0
  /\ Before.history[CursorOf(Before) + 1].url = lastOp.url

\* C8: addToHistory with the url of the entry at the cursor updates only
\* that entry's title: length, order, urls, cursor and the entries after
\* the cursor stay as they were.
C8_SameUrl ==
  SameUrlCase =>
    LET i == CursorOf(Before) + 1
    IN  /\ Len(After.history) = Len(Before.history)
        /\ \A k \in 1..Len(Before.history) :
             /\ After.history[k].url = Before.history[k].url
             /\ k # i => After.history[k] = Before.history[k]
        /\ After.historyIndex = Before.historyIndex
        /\ lastOp.title # "" /\ lastOp.arg = FALSE
             => After.history[i].title = lastOp.title
        /\ [After EXCEPT !.history = Before.history] = Before
        /\ \A id \in DOMAIN lastOp.before \ {lastOp.id} :
             id \in DOMAIN branches /\ branches[id] = lastOp.before[id]
        /\ DOMAIN branches = DOMAIN lastOp.before

\* The title of the entry at the cursor changed, entries after it kept.
C8_Witness ==
  /\ SameUrlCase
  /\ CursorOf(Before) < Len(Before.history) - 1
  /\ After.history[CursorOf(Before) + 1].title = "u"
  /\ Before.history[CursorOf(Before) + 1].title # "u"

\* C9: navigateToHistoryIndex with 0 <= index < history.length sets the
\* cursor to index, leaves the history alone and returns the entry at
\* index; with any other index it returns null and changes nothing.
C9_Navigate ==
  Called("navigateToHistoryIndex") =>
    IF 0 <= lastOp.arg /\ lastOp.arg < Len(Before.history)
    THEN /\ After.historyIndex = lastOp.arg
         /\ After.history = Before.history
         /\ lastOp.ret = <<Before.history[lastOp.arg + 1]>>
    ELSE /\ lastOp.ret = <<>>
         /\ branches = lastOp.before

\* The cursor was moved back from the tail of a history with entries.
C9_Witness ==
  /\ Called("navigateToHistoryIndex")
  /\ lastOp.arg = 0 /\ CursorOf(Before) > 0
  /\ After.historyIndex = 0
  /\ lastOp.ret = <<After.history[1]>>

\* C11: at steady state (no handler suspended at an await) no two branches
\* of the store have the same non-null tabId.
C11_OneBranchPerTab ==
  pending = {} =>
    \A a, b \in DOMAIN branches :
      a # b /\ branches[a].tabId # Null
        => branches[a].tabId # branches[b].tabId

\* The parent a drop on `target` asks for: ROOT for a null target.
EffectiveParent(target) == IF target = Null THEN ROOT_BRANCH_ID ELSE target

\* C12: reparent fails closed: a drop whose dragged branch is ROOT, whose
\* target is the dragged branch, or whose target is a descendant of the
\* dragged branch reports failure and leaves every parentId as it was.
C12_FailsClosed ==
  [][/\ lastOp'.op = "reparent"
     /\ \/ lastOp'.id = ROOT_BRANCH_ID
        \/ EffectiveParent(lastOp'.arg) = lastOp'.id
        \/ lastOp'.id \in ChainAbove(EffectiveParent(lastOp'.arg),
                                     Cardinality(DOMAIN branches))
     => /\ lastOp'.ret = FALSE
        /\ DOMAIN branches' = DOMAIN branches
        /\ \A id \in DOMAIN branches :
             branches'[id].parentId = branches[id].parentId]_vars

\* ROOT was dropped on one of its children: refused, ROOT still parentless.
C12_Witness ==
  /\ lastOp.op = "reparent" /\ lastOp.id = ROOT_BRANCH_ID
  /\ lastOp.arg \in DOMAIN branches
  /\ ParentOf(lastOp.arg) = ROOT_BRANCH_ID
  /\ lastOp.ret = FALSE
  /\ ParentOf(ROOT_BRANCH_ID) = Null

\* C13: a valid drop whose target parent is null sets the dragged branch's
\* parentId to ROOT's id, never to null.
C13_NullMeansRoot ==
  lastOp.op = "reparent" /\ lastOp.ret /\ lastOp.arg = Null
    => /\ lastOp.id \in DOMAIN branches
       /\ ParentOf(lastOp.id) = ROOT_BRANCH_ID

\* A branch was dropped at root level and is now a child of ROOT.
C13_Witness ==
  /\ lastOp.op = "reparent" /\ lastOp.ret /\ lastOp.arg = Null
  /\ lastOp.id \in DOMAIN branches
  /\ ParentOf(lastOp.id) = ROOT_BRANCH_ID
  /\ ROOT_BRANCH_ID \in DOMAIN branches

\* The ids of seq other than id, in the order of seq.
Others(seq, id) == SelectSeq(seq, LAMBDA x : x # id)

\* C14: after a valid reparent(branchId, newParentId, index), index being a
\* position among the children newParentId then has, branchId is at
\* position index among getChildren(newParentId) and the other children
\* keep their relative order.
C14_SiblingPosition ==
  LET parent == EffectiveParent(lastOp.arg.parent)
      kids == GetChildren(branches, order, parent)
      old == GetChildren(lastOp.before, order, parent)
  IN  /\ lastOp.op = "reparentAt" /\ lastOp.ret
      /\ lastOp.arg.index <= Len(Others(old, lastOp.id))
      => /\ Len(kids) = Len(Others(old, lastOp.id)) + 1
         /\ kids[lastOp.arg.index + 1] = lastOp.id
         /\ Others(kids, lastOp.id) = Others(old, lastOp.id)

(***************************************************************************)
(* C15: a tab-added event whose tab data already names a branch creates no *)
(* branch and changes no field of any branch, in memory or in the database.*)
(* A step that opens a tab is a tab-added event; tabBranch' at the new tab *)
(* is the branchId its tab data came with.                                 *)
(***************************************************************************)
C15_ExistingBranchNoOp ==
  [][nextTab' # nextTab /\ tabBranch'[nextTab] # Null
       => /\ branches' = branches
          /\ order' = order
          /\ stored' = stored
          /\ pending' = pending]_vars

\* The newest tab came with a branchId, and no branch was made for or
\* moved to it.
C15_Witness ==
  LET t == nextTab - 1
  IN  /\ phase = "listening" /\ events > 0
      /\ t \in liveTabs
      /\ tabBranch[t] \in DOMAIN branches
      /\ branches[tabBranch[t]].tabId # t
      /\ \A b \in DOMAIN branches : branches[b].tabId # t
      /\ \A p \in pending : p.k = "tabdata" => p.tab # t

(***************************************************************************)
(* C16: a tab-added event without a branchId, arriving while the store has *)
(* no ROOT, makes the new tab ROOT: after the step ROOT exists with the    *)
(* new tab as tabId and parentId null, and no other branch was created or  *)
(* removed.  An event that arrives while an earlier handler is still       *)
(* suspended on ROOT's database write finds ROOT in the store and leaves   *)
(* its record as it is, the tabId apart.                                   *)
(***************************************************************************)
C16_FirstTabIsRoot ==
  [][nextTab' # nextTab /\ tabBranch'[nextTab] = Null
     => /\ GetRoot(branches) = Null
           => /\ GetRoot(branches') = ROOT_BRANCH_ID
              /\ branches'[ROOT_BRANCH_ID].tabId = nextTab
              /\ branches'[ROOT_BRANCH_ID].parentId = Null
              /\ DOMAIN branches' = DOMAIN branches \cup {ROOT_BRANCH_ID}
              /\ \A id \in DOMAIN branches : branches'[id] = branches[id]
        /\ (\E p \in pending : p.k = "tabdata" /\ p.id = ROOT_BRANCH_ID)
           => /\ GetRoot(branches) = ROOT_BRANCH_ID
              /\ branches'[ROOT_BRANCH_ID] =
                   [branches[ROOT_BRANCH_ID] EXCEPT
                      !.tabId = branches'[ROOT_BRANCH_ID].tabId]]_vars

\* ROOT was made for the newest tab by a tab-added event whose handler is
\* still suspended, in a store that held another branch already.
C16_Witness ==
  /\ phase = "listening" /\ events = 1
  /\ GetRoot(branches) = ROOT_BRANCH_ID
  /\ branches[ROOT_BRANCH_ID] = RootBranch(nextTab - 1)
  /\ TabDataTask(nextTab - 1, ROOT_BRANCH_ID) \in pending
  /\ Len(order) > 1 /\ order[Len(order)] = ROOT_BRANCH_ID

(***************************************************************************)
(* C17: a tab-added event without a branchId, arriving while ROOT exists   *)
(* and ROOT's tabId is not an open tab, gives ROOT the new tab: the store  *)
(* holds the same branches as before and differs only in ROOT's tabId.     *)
(***************************************************************************)
C17_RootReassigned ==
  [][/\ nextTab' # nextTab
     /\ tabBranch'[nextTab] = Null
     /\ GetRoot(branches) = ROOT_BRANCH_ID
     /\ branches[ROOT_BRANCH_ID].tabId \notin liveTabs
     => /\ DOMAIN branches' = DOMAIN branches
        /\ Cardinality(DOMAIN branches') = Cardinality(DOMAIN branches)
        /\ branches' = [branches EXCEPT ![ROOT_BRANCH_ID].tabId = nextTab]
        /\ nextId' = nextId]_vars

\* ROOT, the oldest of several branches, has the newest tab, and the
\* handler that gave it the tab is still suspended.
C17_Witness ==
  /\ phase = "listening" /\ events > 0
  /\ GetRoot(branches) = ROOT_BRANCH_ID
  /\ Len(order) > 1 /\ order[1] = ROOT_BRANCH_ID
  /\ branches[ROOT_BRANCH_ID].tabId = nextTab - 1
  /\ TabDataTask(nextTab - 1, ROOT_BRANCH_ID) \in pending

(***************************************************************************)
(* C18: a tab-added event without a branchId, arriving while ROOT exists   *)
(* and ROOT's tab is open, creates exactly one branch: its tabId is the    *)
(* new tab, its parentId the parentBranchId of the tab data when there is  *)
(* one and ROOT otherwise, and every other branch is as it was.            *)
(***************************************************************************)
ChildCase ==
  /\ lastOp.op = "tab-added" /\ ~lastOp.ret
  /\ GetRoot(lastOp.before) = ROOT_BRANCH_ID
  /\ lastOp.before[ROOT_BRANCH_ID].tabId \in liveTabs \ {lastOp.id}

C18_OneChildCreated ==
  ChildCase =>
    LET new == DOMAIN branches \ DOMAIN lastOp.before
    IN  /\ Cardinality(new) = 1
        /\ DOMAIN lastOp.before \subseteq DOMAIN branches
        /\ \A id \in DOMAIN lastOp.before : branches[id] = lastOp.before[id]
        /\ \A n \in new :
             /\ branches[n].tabId = lastOp.id
             /\ branches[n].parentId =
                  IF lastOp.arg # Null THEN lastOp.arg ELSE ROOT_BRANCH_ID

\* A child was created below a supplied parent that is not ROOT.
C18_Witness ==
  /\ ChildCase
  /\ lastOp.arg \notin {Null, ROOT_BRANCH_ID}
  /\ \E n \in DOMAIN branches \ DOMAIN lastOp.before :
       branches[n].parentId = lastOp.arg

(***************************************************************************)
(* C19: a tab-destroyed event for ROOT's tab leaves the store unchanged;   *)
(* one for the tab of any other branch destroys that branch with all its   *)
(* descendants, each descendant leaving the store before any of its        *)
(* ancestors and the branch itself last.                                   *)
(* A step that closes a tab is a tab-destroyed event.  `cascade` holds the *)
(* ids the destroyWithChildren runs of the handler have taken.             *)
(***************************************************************************)
ClosedTabs == liveTabs \ liveTabs'

\* the branches that leave the store in the step
Removed == DOMAIN branches \ DOMAIN branches'

\* the ids the destroyWithChildren runs suspended in `pend` have still to
\* destroy
ToDestroy(pend) ==
  UNION {{q.id} \cup SeqRange(q.rest) :
           q \in {r \in pend : r.k = "destroy" /\ r.val = "cascade"}}

C19_RootTabIgnored ==
  \A t \in ClosedTabs :
    GetRoot(branches) = ROOT_BRANCH_ID /\ branches[ROOT_BRANCH_ID].tabId = t
      => branches' = branches /\ stored' = stored /\ pending' = pending

C19_BranchTaken ==
  \A t \in ClosedTabs :
    \A b \in DOMAIN branches \ {ROOT_BRANCH_ID} :
      branches[b].tabId = t
        => /\ b \in cascade'
           /\ SeqRange(GetDescendants(branches, order, b)) \subseteq cascade'
           /\ b \in Removed \cup ToDestroy(pending')

\* What the run that removed a branch in the step has still to destroy
\* holds none of the descendants of that branch.
C19_ChildrenFirst ==
  \A x \in Removed :
    \A d \in ToDestroy(pending' \ pending) \cap DOMAIN branches' :
      x \notin ChainAbove(d, Cardinality(DOMAIN branches))

C19_TabDestroyed ==
  [][C19_RootTabIgnored /\ C19_BranchTaken /\ C19_ChildrenFirst]_vars

(***************************************************************************)
(* C20: the breadcrumb token is single-use.  The url update that reports   *)
(* the navigation of a breadcrumb click is passed to addToHistory with     *)
(* isBreadcrumbNav = true and leaves the history and the cursor of the     *)
(* branch as they were; every url update clears the token; and a url       *)
(* update that follows with no click on record is passed with              *)
(* isBreadcrumbNav = false.                                                *)
(***************************************************************************)
C20_TokenSingleUse ==
  lastOp.op = "url" =>
    /\ ~navToken
    /\ lastOp.ret =>
         /\ lastOp.arg
         /\ branches[lastOp.id].history = lastOp.before[lastOp.id].history
         /\ branches[lastOp.id].historyIndex =
              lastOp.before[lastOp.id].historyIndex
    /\ ~lastOp.ret => ~lastOp.arg

(***************************************************************************)
(* C21: a tab-updated(title) event sets the title of the branch, and sets  *)
(* the title of the last history entry if and only if the url of that      *)
(* entry is the url of the branch and the entry had no title; the length   *)
(* of the history, the urls of its entries, its other titles and the       *)
(* cursor stay as they were.  The handler is suspended between the two     *)
(* writes: a title task enters `pending` with the first and leaves it with *)
(* the second.                                                             *)
(***************************************************************************)
TitleStarted == {p \in pending' \ pending : p.k = "title"}
TitleResumed ==
  {p \in pending \ pending' : p.k = "title" /\ p.id \in DOMAIN branches}

C21_TitleBackfill ==
  [][/\ \A p \in TitleStarted :
          /\ branches'[p.id].title = p.val
          /\ branches'[p.id].history = branches[p.id].history
          /\ branches'[p.id].historyIndex = branches[p.id].historyIndex
     /\ \A p \in TitleResumed :
          LET b == branches[p.id]
              h == b.history
              n == Len(h)
              fill == n > 0 /\ h[n].url = b.url /\ h[n].title = ""
          IN  /\ p.id \in DOMAIN branches'
              /\ Len(branches'[p.id].history) = n
              /\ \A i \in 1..n : branches'[p.id].history[i].url = h[i].url
              /\ \A i \in 1..(n - 1) : branches'[p.id].history[i] = h[i]
              /\ n > 0 => branches'[p.id].history[n].title =
                             IF fill THEN p.val ELSE h[n].title
              /\ branches'[p.id].historyIndex = b.historyIndex
              /\ branches'[p.id].title = b.title]_vars

\* The stored branch with three entries, the last without a title, has
\* been given the title "u", and its last entry with it.
C21_Witness ==
  /\ events = 1
  /\ 1 \in DOMAIN branches
  /\ branches[1].title = "u"
  /\ Len(branches[1].history) = 3
  /\ branches[1].history[3].title = "u"
  /\ \A p \in pending : p.k # "title"

(***************************************************************************)
(* C22: the migration sweep of initialize() makes exactly one branch for   *)
(* every open tab without a branchId: ROOT for the first of them when the  *)
(* store has no ROOT, a child of ROOT for each of the others, and it       *)
(* leaves every loaded branch as it was.  A sweep run again, once the      *)
(* callbacks of the earlier run have written their tabs' branchId, makes   *)
(* no branch and changes none.                                             *)
(***************************************************************************)
Loaded == IF dbAvail THEN LoadAll(stored) ELSE EmptyMap

\* the branches of `br` that are not in `old` and have tab t
MadeFor(br, old, t) == {id \in DOMAIN br \ DOMAIN old : br[id].tabId = t}

C22_FirstSweep ==
  LET lacking == TabsLacking
      made == DOMAIN branches' \ DOMAIN Loaded
  IN  phase = "start" /\ phase' = "listening" =>
        /\ \A id \in DOMAIN Loaded : branches'[id] = Loaded[id]
        /\ Cardinality(made) = Len(lacking)
        /\ \A i \in 1..Len(lacking) :
             /\ Cardinality(MadeFor(branches', Loaded, lacking[i])) = 1
             /\ \A id \in MadeFor(branches', Loaded, lacking[i]) :
                  IF i = 1 /\ GetRoot(Loaded) = Null
                  THEN id = ROOT_BRANCH_ID /\ branches'[id].parentId = Null
                  ELSE id # ROOT_BRANCH_ID
                       /\ branches'[id].parentId = ROOT_BRANCH_ID

C22_SecondSweep ==
  lastOp'.op = "sweep" /\ lastOp'.ret =>
    /\ branches' = branches
    /\ order' = order
    /\ stored' = stored

C22_SweepIdempotent == [][C22_FirstSweep /\ C22_SecondSweep]_vars

\* The sweep was run again on the branches a first sweep made for two
\* tabs, after the callbacks of that sweep had ended.
C22_Witness ==
  /\ lastOp.op = "sweep" /\ lastOp.ret
  /\ rootEnsured
  /\ \E a, b \in DOMAIN branches :
       /\ a = ROOT_BRANCH_ID /\ branches[b].parentId = ROOT_BRANCH_ID
       /\ tabBranch[branches[a].tabId] = a
       /\ tabBranch[branches[b].tabId] = b


\* ---------------------------------------------------------------------
\* Reconciler passes, seen one at a time: the pass records the store it
\* started from and whether the live-tab source was available; the pass's
\* own destroy calls complete without forgetting it, every tab event and
\* every continuation of a tab event handler forgets it.

\* how many passes have run in a row, this one included
PassNumber == IF lastOp.op = "reconcile" THEN lastOp.arg + 1 ELSE 1

ReconcileCall ==
  /\ ReconcileStep
  /\ lastOp' = Call("reconcile", Null, PassNumber, "", "", tabsReady, branches)

ResumeDestroyKeep(p) ==
  /\ ResumeDestroyStep(p)
  /\ lastOp' = IF p.val = "single" THEN lastOp ELSE NoOp

NextReconcile ==
  \/ \E url \in TreeUrls, title \in TreeTitles : Initialize(url, title)
  \/ \E url \in TreeUrls, title \in TreeTitles : TabAdded(url, title, Null, Null)
  \/ \E p \in pending : ResumeTabData(p)
  \/ \E tabId \in liveTabs : TabDestroyed(tabId)
  \/ \E p \in pending : ResumeDestroyKeep(p)
  \/ \E tabId \in liveTabs : TabSelected(tabId)
  \/ DelayedRootSetup
  \/ \E p \in pending : ResumeClearStale(p)
  \/ ReconcileCall

\* What a session left whose middle tab was not restored: ROOT, its child
\* without a live tab, and that child's own child.
ParentTabGone ==
  [stored |-> (ROOT_BRANCH_ID :> StoredRoot(1)) @@
              (1 :> Branch(2, ROOT_BRANCH_ID, "a", "t", <<Entry("a", "t")>>, 0)) @@
              (2 :> Branch(3, 1, "b", "t", <<Entry("b", "t")>>, 0)),
   tabs |-> (1 :> ROOT_BRANCH_ID) @@ (3 :> 2)]

InitReconcile == \E sc \in Scenarios \cup {ParentTabGone} : InitFrom(sc)

SpecReconcile == InitReconcile /\ [][NextReconcile]_vars

\* the destroy calls a pass issued have all completed
PassCompleted ==
  /\ lastOp.op = "reconcile"
  /\ \A p \in pending : ~(p.k = "destroy" /\ p.val = "single")

\* the stale branches of a store: not ROOT, tab missing or not live
StaleIn(br) == {id \in DOMAIN br \ {ROOT_BRANCH_ID} :
                  br[id].tabId = Null \/ br[id].tabId \notin liveTabs}

\* C23: once a Reconciler pass that ran with the live-tab source available
\* has completed, no branch other than ROOT has a missing or dead tab, and
\* the branches the pass removed are exactly the stale ones of the store it
\* started from: their descendants stay.
C23_StaleRemovedAlone ==
  (PassCompleted /\ lastOp.ret) =>
    /\ StaleIn(branches) = {}
    /\ DOMAIN lastOp.before \ DOMAIN branches = StaleIn(lastOp.before)

\* a pass removed a stale branch and left its child in the store
C23_Witness ==
  /\ PassCompleted /\ lastOp.ret
  /\ \E id \in StaleIn(lastOp.before) :
       /\ id \notin DOMAIN branches
       /\ \E c \in DOMAIN branches : branches[c].parentId = id

\* C24: once a Reconciler pass has completed, no branch other than ROOT has
\* a null parentId, and every branch other than ROOT that had a null
\* parentId when the pass started and is still in the store has ROOT as
\* its parent.
C24_OrphansAdopted ==
  PassCompleted =>
    \A id \in DOMAIN branches \ {ROOT_BRANCH_ID} :
      /\ branches[id].parentId # Null
      /\ (id \in DOMAIN lastOp.before /\ lastOp.before[id].parentId = Null)
           => branches[id].parentId = ROOT_BRANCH_ID

\* the branches a destroy call is still working on
BeingDestroyed == {p.id : p \in {q \in pending : q.k = "destroy"}}

CyclicChain ==
  [stored |-> (ROOT_BRANCH_ID :> StoredRoot(1)) @@
              (1 :> Branch(2, 2, "a", "t", <<Entry("a", "t")>>, 0)) @@
              (2 :> Branch(3, 1, "b", "t", <<Entry("b", "t")>>, 0)),
   tabs |-> (1 :> ROOT_BRANCH_ID) @@ (2 :> 1) @@ (3 :> 2)]

InitWalk == \E sc \in Scenarios \cup {CyclicChain} : InitFrom(sc)

AncestorsTask(id, ancestors) == Task("ancestors", Null, id, ancestors, "")

Walking == \E p \in pending : p.k = "ancestors"

\* var ancestors = []; var branch = branches[branchId]
GetAncestorsStart(branchId) ==
  /\ phase # "start" /\ ~Walking
  /\ Spend
  /\ pending' = pending \cup {AncestorsTask(branchId, <<>>)}
  /\ lastOp' = Call("getAncestors", branchId, Null, "", "", FALSE, branches)
  /\ UNCHANGED <<branches, order, stored, liveTabs, tabBranch, selected,
                 tabsReady, dbAvail, pinnedSites, otherTabs, navToken, phase, nextId, nextTab,
                 rootEnsured, cascade>>

\* the parent put in front of the ancestors found so far
PushedFront(ancestors, id) ==
  IF Len(ancestors) < Cardinality(DOMAIN branches)
  THEN <<id>> \o ancestors ELSE ancestors

\* the array keeps growing while the loop runs; the model keeps as many
\* entries as the store has branches, which an acyclic chain never exceeds
Pushed(ancestors, id) ==
  IF Len(ancestors) < Cardinality(DOMAIN branches)
  THEN Append(ancestors, id) ELSE ancestors

\* one test of the while condition, and the body if it holds
WalkAncestors(p) ==
  LET goesOn == /\ p.id \in DOMAIN branches
                /\ branches[p.id].parentId # Null
                /\ branches[p.id].parentId \in DOMAIN branches
  IN
  /\ p \in pending /\ p.k = "ancestors"
  /\ IF goesOn
     THEN /\ pending' = (pending \ {p}) \cup
                          {AncestorsTask(branches[p.id].parentId,
                                         Pushed(p.rest, branches[p.id].parentId))}
          /\ UNCHANGED lastOp
     ELSE /\ pending' = pending \ {p}
          /\ lastOp' = [lastOp EXCEPT !.ret = TRUE]
  /\ UNCHANGED <<branches, order, stored, liveTabs, tabBranch, selected,
                 tabsReady, dbAvail, pinnedSites, otherTabs, navToken, phase, nextId, nextTab, events,
                 rootEnsured, cascade>>

NextWalk ==
  \/ ~Walking /\ \E url \in TreeUrls, title \in TreeTitles : Initialize(url, title)
  \/ ~Walking /\ \E url \in TreeUrls, title \in TreeTitles,
                    parentBranchId \in DOMAIN branches \cup {Null} :
                   TabAdded(url, title, parentBranchId, Null)
  \/ ~Walking /\ \E p \in pending : ResumeTabData(p)
  \/ ~Walking /\ \E tabId \in liveTabs : TabSelected(tabId)
  \/ \E branchId \in DOMAIN branches \cup {UnknownId} : GetAncestorsStart(branchId)
  \/ \E p \in pending : WalkAncestors(p)

SpecWalk ==
  InitWalk /\ [][NextWalk]_vars /\ WF_vars(\E p \in pending : WalkAncestors(p))

\* C26: every call of getAncestors returns, whatever the store holds, a
\* parent chain that runs in a cycle included.
C26_AncestorsTerminates == Walking ~> ~Walking

\* ---------------------------------------------------------------------
\* The store operations called one after the other, each with the outcome
\* of its durable request: "ok" (the request is served), "failed" (the
\* request is rejected; the catch around the await logs it) or "none"
\* (getDb() returned nothing and no request is made).

Outcomes == IF dbAvail THEN {"ok", "failed"} ELSE {"none"}

\* database.branches.put(...) / .delete(...) with their outcome
DbWrite(outcome, st, br, ids) == IF outcome = "ok" THEN DbPut(st, br, ids) ELSE st
DbRemove(outcome, st, ids) == IF outcome = "ok" THEN DbDelete(st, ids) ELSE st

CallFrame ==
  UNCHANGED <<liveTabs, tabBranch, selected, tabsReady, dbAvail, pinnedSites, otherTabs, navToken,
              phase, nextTab, cascade>>

\* create(id) suspended at the await of its put
CreateTask(id, outcome) == Task("create", Null, id, <<>>, outcome)

\* the put of create(id) has not completed yet
InFlight(id) == \E p \in pending : p.k = "create" /\ p.id = id

CreateCall(tabId, parentId, url, title, outcome) ==
  /\ phase # "start" /\ Spend /\ outcome \in Outcomes
  /\ branches' = Create(branches, nextId, tabId, parentId, url, title)
  /\ order' = Append(order, nextId)
  /\ nextId' = nextId + 1
  /\ stored' = DbWrite(outcome, stored, branches', {nextId})
  /\ pending' = pending \cup
                  (IF dbAvail THEN {CreateTask(nextId, outcome)} ELSE {})
  /\ lastOp' = Call("create", nextId, <<tabId, parentId>>, url, title,
                    <<nextId>>, branches)
  /\ UNCHANGED rootEnsured /\ CallFrame

\* create() after its await: it returns the id
ResumeCreate(p) ==
  /\ p \in pending /\ p.k = "create"
  /\ pending' = pending \ {p}
  /\ UNCHANGED <<branches, order, stored, liveTabs, tabBranch, selected,
                 tabsReady, dbAvail, pinnedSites, otherTabs, navToken, phase, nextId, nextTab, events,
                 rootEnsured, cascade, lastOp>>

UpdateCall(branchId, data, outcome) ==
  /\ phase # "start" /\ Spend /\ outcome \in Outcomes
  /\ branches' = Update(branches, branchId, data)
  /\ stored' = IF branchId \in DOMAIN branches
               THEN DbWrite(outcome, stored, branches', {branchId}) ELSE stored
  /\ lastOp' = Call("update", branchId, data, "", "",
                    UpdateRet(branches, branchId), branches)
  /\ UNCHANGED <<order, nextId, pending, rootEnsured>> /\ CallFrame

AddToHistoryOutcome(branchId, url, title, isBreadcrumbNav, outcome) ==
  /\ phase # "start" /\ Spend /\ outcome \in Outcomes
  /\ branches' = AddToHistory(branches, branchId, url, title, isBreadcrumbNav)
  /\ stored' = IF branches' # branches
               THEN DbWrite(outcome, stored, branches', {branchId}) ELSE stored
  /\ lastOp' = Call("addToHistory", branchId, isBreadcrumbNav, url, title,
                    AddToHistoryRet(branches, branchId, url, isBreadcrumbNav),
                    branches)
  /\ UNCHANGED <<order, nextId, pending, rootEnsured>> /\ CallFrame

NavigateOutcome(branchId, index, outcome) ==
  /\ phase # "start" /\ Spend /\ outcome \in Outcomes
  /\ branches' = NavigateToHistoryIndex(branches, branchId, index)
  /\ stored' = IF ValidIndex(branches, branchId, index)
               THEN DbWrite(outcome, stored, branches', {branchId}) ELSE stored
  /\ lastOp' = Call("navigateToHistoryIndex", branchId, index, "", "",
                    NavigateRet(branches, branchId, index), branches)
  /\ UNCHANGED <<order, nextId, pending, rootEnsured>> /\ CallFrame

EnsureRootCall(tabId, outcome) ==
  /\ phase # "start" /\ Spend /\ outcome \in Outcomes
  /\ branches' = EnsureRoot(branches, tabId)
  /\ order' = PutOrder(order, branches, ROOT_BRANCH_ID)
  /\ stored' = IF branches' # branches
               THEN DbWrite(outcome, stored, branches', {ROOT_BRANCH_ID})
               ELSE stored
  /\ rootEnsured' = TRUE
  /\ lastOp' = Call("ensureRoot", tabId, Null, "", "", <<ROOT_BRANCH_ID>>,
                    branches)
  /\ UNCHANGED <<nextId, pending>> /\ CallFrame

\* the durable delete destroy(id) issues when it is called, with its outcome
\* destroy() issuing no delete
StartRemovedNever(outcome, st, br, list) == st

StartRemoved(outcome, st, br, list) ==
  IF list # <<>> /\ CanDestroy(br, Head(list))
  THEN DbRemove(outcome, st, {Head(list)}) ELSE st

DestroyOutcome(branchId, outcome) ==
  LET list == IF CanDestroy(branches, branchId) THEN <<branchId>> ELSE <<>>
  IN
  /\ phase # "start" /\ Spend /\ outcome \in Outcomes
  /\ branches' = StartBranches(branches, list)
  /\ order' = StartOrder(order, list)
  /\ stored' = StartRemoved(outcome, stored, branches, list)
  /\ pending' = pending \cup StartTasks(list, outcome)
  /\ lastOp' = Call("destroy", branchId,
                    [creating |-> InFlight(branchId), outcome |-> outcome],
                    "", "", CanDestroy(branches, branchId), branches)
  /\ UNCHANGED <<nextId, rootEnsured>> /\ CallFrame

DestroyWithChildrenOutcome(branchId, outcome) ==
  LET list == DestroyList(branches, order, branchId)
  IN
  /\ phase # "start" /\ Spend /\ outcome \in Outcomes
  /\ branches' = StartBranches(branches, list)
  /\ order' = StartOrder(order, list)
  /\ stored' = StartRemoved(outcome, stored, branches, list)
  /\ pending' = pending \cup StartTasks(list, outcome)
  /\ lastOp' = Call("destroyWithChildren", branchId, Null, "", "", TRUE,
                    branches)
  /\ UNCHANGED <<nextId, rootEnsured>> /\ CallFrame

\* a rejected delete leaves destroy() by the rejection: the branch stays
\* in memory and the calls that were to follow are not made
ResumeDestroyUncaught(p) ==
  /\ p \in pending /\ p.k = "destroy"
  /\ branches' = IF p.val = "failed" THEN branches
                 ELSE DeleteBranch(branches, p.id)
  /\ order' = IF p.val = "failed" THEN order ELSE DeleteOrder(order, p.id)
  /\ pending' = (pending \ {p}) \cup
                  (IF p.rest = <<>> \/ p.val = "failed" THEN {}
                   ELSE {DestroyTask(Head(p.rest), Tail(p.rest), p.val)})
  /\ stored' = IF p.val = "failed" THEN stored
               ELSE StartRemoved(p.val, stored, branches', p.rest)
  /\ UNCHANGED <<liveTabs, tabBranch, selected, tabsReady, dbAvail, pinnedSites, otherTabs, navToken,
                 phase, nextId, nextTab, events, rootEnsured, cascade, lastOp>>

\* destroy() after its await, whatever the outcome of the delete was: the
\* branch leaves memory, and the caller goes on to its next destroy()
ResumeDestroyOutcome(p) ==
  /\ p \in pending /\ p.k = "destroy"
  /\ branches' = DeleteBranch(branches, p.id)
  /\ order' = DeleteOrder(order, p.id)
  /\ pending' = (pending \ {p}) \cup
                  (IF p.rest = <<>> THEN {}
                   ELSE {DestroyTask(Head(p.rest), Tail(p.rest), p.val)})
  /\ stored' = StartRemoved(p.val, stored, branches', p.rest)
  /\ UNCHANGED <<liveTabs, tabBranch, selected, tabsReady, dbAvail, pinnedSites, otherTabs, navToken,
                 phase, nextId, nextTab, events, rootEnsured, cascade, lastOp>>

\* no destroy() is suspended
Settled == \A p \in pending : p.k # "destroy"

\* arguments worth calling with
CallTabs == {Null, 7}
CallUrls == {"", "a"}
CallData == {[title |-> "u"], [tabId |-> 7], [historyIndex |-> 0]}

NextPersist ==
  \/ \E url \in TreeUrls, title \in TreeTitles : Initialize(url, title)
  \/ Settled /\ \E tabId \in CallTabs, parentId \in DOMAIN branches \cup {Null},
                   url \in CallUrls, outcome \in Outcomes :
                  CreateCall(tabId, parentId, url, "t", outcome) /\ Counted
  \/ Settled /\ \E branchId \in DOMAIN branches \cup {UnknownId},
                   data \in CallData, outcome \in Outcomes :
                  UpdateCall(branchId, data, outcome) /\ Counted
  \/ Settled /\ \E branchId \in DOMAIN branches \cup {UnknownId},
                   url \in CallUrls, isBreadcrumbNav \in BOOLEAN,
                   outcome \in Outcomes :
                  AddToHistoryOutcome(branchId, url, "t", isBreadcrumbNav, outcome) /\ Counted
  \/ Settled /\ \E branchId \in DOMAIN branches \cup {UnknownId},
                   index \in {-1, 0, 1}, outcome \in Outcomes :
                  NavigateOutcome(branchId, index, outcome) /\ Counted
  \/ Settled /\ \E tabId \in CallTabs, outcome \in Outcomes :
                  EnsureRootCall(tabId, outcome) /\ Counted
  \/ Settled /\ \E branchId \in DOMAIN branches \cup {ROOT_BRANCH_ID, UnknownId},
                   outcome \in Outcomes :
                  DestroyOutcome(branchId, outcome) /\ Counted
  \/ Settled /\ \E branchId \in DOMAIN branches \cup {ROOT_BRANCH_ID, UnknownId},
                   outcome \in Outcomes :
                  DestroyWithChildrenOutcome(branchId, outcome) /\ Counted
  \/ \E p \in pending : ResumeCreate(p)
  \/ \E p \in pending : ResumeDestroyOutcome(p)

\* The stores the calls are made on: what the sessions left, a chain of
\* three branches among them.
InitPersist == \E sc \in Scenarios \cup {ParentTabGone} : InitFrom(sc)

SpecPersist == InitPersist /\ [][NextPersist]_vars

\* the branches destroyWithChildren(id) is to remove from a store
CascadeOf(br, id) ==
  (SeqRange(DestroyList(br, SortedSeq(DOMAIN br), id)) \cap DOMAIN br)
    \ {ROOT_BRANCH_ID}

\* The store a call leaves and the value it returns, from the call and the
\* store it was made on alone: the outcome of the durable request is no
\* part of either.
StoreAfter(c) ==
  CASE c.op = "create" ->
         Create(c.before, c.id, c.arg[1], c.arg[2], c.url, c.title)
    [] c.op = "update" -> Update(c.before, c.id, c.arg)
    [] c.op = "addToHistory" ->
         AddToHistory(c.before, c.id, c.url, c.title, c.arg)
    [] c.op = "navigateToHistoryIndex" ->
         NavigateToHistoryIndex(c.before, c.id, c.arg)
    [] c.op = "ensureRoot" -> EnsureRoot(c.before, c.id)
    [] c.op = "destroy" ->
         IF CanDestroy(c.before, c.id)
         THEN Restrict(c.before, DOMAIN c.before \ {c.id}) ELSE c.before
    [] c.op = "destroyWithChildren" ->
         Restrict(c.before, DOMAIN c.before \ CascadeOf(c.before, c.id))
    [] OTHER -> c.before

ValueReturned(c) ==
  CASE c.op = "create" -> <<c.id>>
    [] c.op = "update" -> c.id \in DOMAIN c.before
    [] c.op = "addToHistory" -> AddToHistoryRet(c.before, c.id, c.url, c.arg)
    [] c.op = "navigateToHistoryIndex" -> NavigateRet(c.before, c.id, c.arg)
    [] c.op = "ensureRoot" -> <<ROOT_BRANCH_ID>>
    [] c.op = "destroy" -> CanDestroy(c.before, c.id)
    [] c.op = "destroyWithChildren" -> TRUE
    [] OTHER -> c.ret

\* C27: when a call of create, update, addToHistory, navigateToHistoryIndex,
\* destroy, destroyWithChildren or ensureRoot has completed, the store in
\* memory and the value returned are those the call and the store it was
\* made on determine, whether the durable request was served, was rejected
\* or was never made; the call returns in each case.
C27_OutcomeIndependent ==
  (lastOp.op # "none" /\ Settled) =>
    /\ branches = StoreAfter(lastOp)
    /\ lastOp.ret = ValueReturned(lastOp)

\* a cascade has completed whose durable deletes were rejected: the
\* branches are gone from memory and still recorded
C27_Witness ==
  /\ lastOp.op = "destroyWithChildren" /\ Settled /\ dbAvail
  /\ Cardinality(CascadeOf(lastOp.before, lastOp.id)) = 2
  /\ CascadeOf(lastOp.before, lastOp.id) \cap DOMAIN branches = {}
  /\ CascadeOf(lastOp.before, lastOp.id) \subseteq DOMAIN stored

\* ---------------------------------------------------------------------
\* create() and destroy() called at any time, a destroy() of a branch
\* whose create() is still suspended included.  The database serves the
\* requests of its one connection in the order they were issued, so each
\* request takes effect when it is issued; the callers resume in any order.

NextRace ==
  \/ \E url \in TreeUrls, title \in TreeTitles : Initialize(url, title)
  \/ \E parentId \in DOMAIN branches \cup {Null}, outcome \in Outcomes :
       CreateCall(7, parentId, "a", "t", outcome)
  \/ \E p \in pending : ResumeCreate(p)
  \/ Settled /\ \E branchId \in DOMAIN branches, outcome \in Outcomes :
                  DestroyOutcome(branchId, outcome)
  \/ \E p \in pending : ResumeDestroyOutcome(p)

SpecRace == Init /\ [][NextRace]_vars

\* the last call was a destroy() of a branch whose create() was suspended
DestroyedWhileCreating == lastOp.op = "destroy" /\ lastOp.arg.creating

\* C28: a destroy of a branch called while the put of its create is in
\* flight goes ahead: it issues the durable delete and suspends on it, the
\* branch is out of memory once it has resumed, and once the put and a
\* served delete have both completed, whichever caller resumed first, the
\* durable store has no record of the branch.
C28_DestroyWins ==
  DestroyedWhileCreating =>
    /\ lastOp.ret
    /\ ~Settled => \E p \in pending : p.k = "destroy" /\ p.id = lastOp.id
    /\ Settled => lastOp.id \notin DOMAIN branches
    /\ (Settled /\ ~InFlight(lastOp.id) /\ lastOp.arg.outcome = "ok")
         => lastOp.id \notin DOMAIN stored

\* both callers have resumed after a put and a delete that were served
C28_Witness ==
  /\ DestroyedWhileCreating /\ lastOp.arg.outcome = "ok"
  /\ Settled /\ ~InFlight(lastOp.id)
  /\ lastOp.id \in DOMAIN lastOp.before
  /\ lastOp.id \notin DOMAIN branches \cup DOMAIN stored

\* every handler and every store call has run to its end
Quiescent == phase # "start" /\ pending = {}

\* C29: with the database available, once every handler has run to its end
\* (every durable put and delete it issued was served, none is outstanding)
\* the durable store holds exactly the branches of the store in memory,
\* each with the field values it has in memory.
C29_DurableMatchesMemory ==
  (dbAvail /\ Quiescent) =>
    /\ DOMAIN stored = DOMAIN branches
    /\ \A id \in DOMAIN branches : stored[id] = branches[id]

\* the operations that take the id of a branch
ByBranchId == {"update", "destroy", "destroyWithChildren", "addToHistory",
               "navigateToHistoryIndex"}

\* false, or null where the operation returns an entry
Falsy(c) == IF c.op = "navigateToHistoryIndex" THEN c.ret = <<>>
            ELSE c.ret = FALSE

\* C30: get, update, destroy, destroyWithChildren, addToHistory and
\* navigateToHistoryIndex called with an id no branch has return false or
\* null (the call returns, nothing is thrown) and leave the branches in
\* memory, their order and the durable records as they were.
C30_UnknownIdRefused ==
  [][/\ Get(branches, UnknownId) = Null
     /\ (/\ events' # events
         /\ lastOp'.op \in ByBranchId
         /\ lastOp'.id \notin DOMAIN branches)
          => /\ Falsy(lastOp')
             /\ branches' = branches /\ order' = order /\ stored' = stored]_vars

\* the loop of the walk has come to its end: what it holds is returned
WalkEnded(p) ==
  /\ p.k = "ancestors"
  /\ \/ p.id \notin DOMAIN branches
     \/ branches[p.id].parentId = Null
     \/ branches[p.id].parentId \notin DOMAIN branches

\* the branch whose parent the i-th entry of the list is
Below(L, i) == IF i = 1 THEN lastOp.id ELSE L[i - 1]

\* C31: the list a call of getAncestors returns holds the parent of the
\* branch, then the parent of that one, and so on, nearest first, each once,
\* and ends at a branch without a parent in the store; for ROOT, its child
\* and that child's child it is the child, then ROOT.
C31_AncestorsNearestFirst ==
  \A p \in pending :
    (lastOp.op = "getAncestors" /\ WalkEnded(p)) =>
      LET L == p.rest
          top == IF L = <<>> THEN lastOp.id ELSE L[Len(L)]
      IN  /\ \A i \in 1..Len(L) :
               /\ L[i] \in DOMAIN branches
               /\ L[i] = branches[Below(L, i)].parentId
          /\ \A i, j \in 1..Len(L) : L[i] = L[j] => i = j
          /\ top = p.id

\* the call on a grandchild of ROOT is about to return the child, then ROOT
C31_Witness ==
  \E p \in pending :
    /\ lastOp.op = "getAncestors" /\ WalkEnded(p)
    /\ Len(p.rest) = 2
    /\ p.rest[2] = ROOT_BRANCH_ID
    /\ branches[lastOp.id].parentId = p.rest[1]

\* ---------------------------------------------------------------------
\* ensureRoot(tabId) called any number of times between create() calls.

NextRoot ==
  \/ \E url \in TreeUrls, title \in TreeTitles : Initialize(url, title)
  \/ \E tabId \in CallTabs, outcome \in Outcomes : EnsureRootCall(tabId, outcome)
  \/ \E parentId \in DOMAIN branches \cup {Null}, outcome \in Outcomes :
       CreateCall(7, parentId, "a", "t", outcome)
  \/ \E p \in pending : ResumeCreate(p)

SpecRoot == Init /\ [][NextRoot]_vars

\* C32: a call of ensureRoot(tabId) returns ROOT's id; it adds ROOT, made
\* for tabId, when the store has none, and otherwise changes nothing but
\* ROOT's tabId, which becomes tabId (a tabId of null changes nothing); it
\* adds no other branch and touches none, and a call that follows a call
\* with the same tabId leaves the store as it was.
C32_EnsureRootIdempotent ==
  [][(lastOp'.op = "ensureRoot" /\ events' # events) =>
       LET tab == lastOp'.id IN
       /\ lastOp'.ret = <<ROOT_BRANCH_ID>>
       /\ DOMAIN branches' = DOMAIN branches \cup {ROOT_BRANCH_ID}
       /\ \A id \in DOMAIN branches \ {ROOT_BRANCH_ID} :
            branches'[id] = branches[id]
       /\ ROOT_BRANCH_ID \notin DOMAIN branches
            => branches'[ROOT_BRANCH_ID] = RootBranch(tab)
       /\ ROOT_BRANCH_ID \in DOMAIN branches
            => branches'[ROOT_BRANCH_ID] =
                 [branches[ROOT_BRANCH_ID] EXCEPT
                    !.tabId = IF tab # Null THEN tab ELSE @]
       /\ (lastOp.op = "ensureRoot" /\ lastOp.id = tab)
            => branches' = branches /\ order' = order]_vars

\* ensureRoot(7) was called on a store whose ROOT an earlier ensureRoot(7)
\* had given tab 7
C32_Witness ==
  /\ lastOp.op = "ensureRoot" /\ lastOp.id = 7
  /\ ROOT_BRANCH_ID \in DOMAIN lastOp.before
  /\ lastOp.before[ROOT_BRANCH_ID].tabId = 7
  /\ branches = lastOp.before


(***************************************************************************)
(* Pinned sites (branchPanel.pinBranch, unpinSite).  branchPanel.js holds  *)
(* two panel objects one after the other; the second assignment of         *)
(* `branchPanel`, of module.exports and of MAX_PINNED_SITES (Infinity) is  *)
(* the one in force when any method runs.                                  *)
(***************************************************************************)
PinUrls == {"a", "b", "c", "d", "e", "f", "g"}

PinFrame ==
  UNCHANGED <<branches, order, stored, liveTabs, tabBranch, selected,
              tabsReady, dbAvail, otherTabs, navToken, pending, phase, nextId,
              nextTab, events, rootEnsured, cascade>>

\* pinBranch(branch): pushes {url, title} unless a site with that url is there
PinBranch(url, title) ==
  /\ pinnedSites' =
       IF \E i \in 1..Len(pinnedSites) : pinnedSites[i].url = url
       THEN pinnedSites
       ELSE Append(pinnedSites, [url |-> url, title |-> title])
  /\ lastOp' = NoOp
  /\ PinFrame

\* unpinSite(index): splice(index, 1), index counted from 0
UnpinSite(index) ==
  /\ index \in 0..(Len(pinnedSites) - 1)
  /\ pinnedSites' = [i \in 1..(Len(pinnedSites) - 1) |->
                       IF i <= index THEN pinnedSites[i]
                       ELSE pinnedSites[i + 1]]
  /\ lastOp' = NoOp
  /\ PinFrame

NextPins ==
  \/ \E url \in PinUrls, title \in TreeTitles : PinBranch(url, title)
  \/ \E index \in 0..6 : UnpinSite(index)

SpecPins == Init /\ [][NextPins]_vars

\* C33: after any sequence of pinBranch and unpinSite calls the list of
\* pinned sites holds at most 6 entries.
C33_AtMostSix == Len(pinnedSites) <= 6


(***************************************************************************)
(* Drag-over geometry (branchPanel.updateDropTarget and what it calls).    *)
(* The mouse position enters as the row it selects, the half of the row    *)
(* it is in (insertAfter) and the depth its x coordinate works out to      *)
(* (calculatedDepth); the set of collapsed branches is the panel's.        *)
(***************************************************************************)
DATA_DEPTH_CAP == 5

Row(id, depth) == [id |-> id, depth |-> depth]

\* renderBranch(branch, depth): the row, then the children's rows unless
\* the branch is collapsed
RECURSIVE RenderBranch(_, _, _, _, _)
RECURSIVE RenderEach(_, _, _, _, _)
RenderEach(br, ord, collapsed, ids, depth) ==
  IF ids = <<>> THEN <<>>
  ELSE RenderBranch(br, ord, collapsed, Head(ids), depth)
         \o RenderEach(br, ord, collapsed, Tail(ids), depth)
RenderBranch(br, ord, collapsed, id, depth) ==
  <<Row(id, Min(depth, DATA_DEPTH_CAP))>> \o
  (IF id \in collapsed THEN <<>>
   ELSE RenderEach(br, ord, collapsed, GetChildren(br, ord, id), depth + 1))

\* render(): ROOT is skipped and its children are the rows of depth 0; any
\* other parentless branch is a row of depth 0 itself
RECURSIVE RenderRoots(_, _, _, _)
RenderRoots(br, ord, collapsed, roots) ==
  IF roots = <<>> THEN <<>>
  ELSE (IF IsRoot(Head(roots))
        THEN RenderEach(br, ord, collapsed, GetChildren(br, ord, Head(roots)), 0)
        ELSE RenderBranch(br, ord, collapsed, Head(roots), 0))
         \o RenderRoots(br, ord, collapsed, Tail(roots))
Render(br, ord, collapsed) == RenderRoots(br, ord, collapsed, GetRoots(br, ord))

\* hasVisibleChildren(branchId)
HasVisibleChildren(br, ord, collapsed, branchId) ==
  IF branchId \in collapsed THEN FALSE
  ELSE GetChildren(br, ord, branchId) # <<>>

\* targetBranch.parentId || bs.getRootBranchId()
ParentOrRoot(br, id) ==
  IF br[id].parentId # Null THEN br[id].parentId ELSE ROOT_BRANCH_ID

\* the outdent branch: ancestors[levelDiff - 1], the list counted from 0
OutdentParent(br, targetBranchId, currentDepth, targetDepth) ==
  LET ancestors == GetAncestors(br, targetBranchId)
      levelDiff == currentDepth - targetDepth
  IN  IF levelDiff <= Len(ancestors) THEN ancestors[(levelDiff - 1) + 1]
      ELSE ROOT_BRANCH_ID

\* determineParentFromDepth(targetItem, insertAfter, targetDepth, allItems)
DetermineParentFromDepth(br, targetBranchId, currentDepth, insertAfter, targetDepth) ==
  IF insertAfter
  THEN IF targetDepth > currentDepth THEN targetBranchId
       ELSE IF targetDepth = currentDepth THEN ParentOrRoot(br, targetBranchId)
       ELSE OutdentParent(br, targetBranchId, currentDepth, targetDepth)
  ELSE IF targetDepth = currentDepth THEN ParentOrRoot(br, targetBranchId)
       ELSE IF targetDepth < currentDepth
       THEN OutdentParent(br, targetBranchId, currentDepth, targetDepth)
       ELSE ParentOrRoot(br, targetBranchId)

\* calculateInsertIndex(parentId, targetBranchId, insertAfter, targetDepth)
CalculateInsertIndex(br, ord, parentId, targetBranchId, insertAfter) ==
  LET siblings == GetChildren(br, ord, parentId)
      at == {i \in 1..Len(siblings) : siblings[i] = targetBranchId}
  IN  IF at = {} THEN Len(siblings)
      ELSE LET targetIndex == (CHOOSE i \in at : TRUE) - 1
           IN  IF insertAfter THEN targetIndex + 1 ELSE targetIndex

\* the depth range ending one level too deep
MaxDropDepthDeeper(br, ord, collapsed, targetBranchId, currentDepth, insertAfter) ==
  currentDepth + 1

\* the upper end of the depth range updateDropTarget clamps to
MaxDropDepth(br, ord, collapsed, targetBranchId, currentDepth, insertAfter) ==
  IF insertAfter
  THEN IF HasVisibleChildren(br, ord, collapsed, targetBranchId)
       THEN currentDepth ELSE currentDepth + 1
  ELSE currentDepth

\* Math.max(minDepth, Math.min(maxDepth, calculatedDepth))
FinalDepth(maxDepth, calculatedDepth) == Max(0, Min(maxDepth, calculatedDepth))

\* what updateDropTarget leaves in dragState
DropTarget(br, ord, collapsed, row, insertAfter, calculatedDepth) ==
  LET maxDepth == MaxDropDepth(br, ord, collapsed, row.id, row.depth, insertAfter)
      finalDepth == FinalDepth(maxDepth, calculatedDepth)
      newParentId == DetermineParentFromDepth(br, row.id, row.depth,
                                              insertAfter, finalDepth)
  IN  [targetBranchId |-> newParentId,
       targetIndex |-> CalculateInsertIndex(br, ord, newParentId, row.id,
                                            insertAfter),
       targetDepth |-> finalDepth]

DepthInputs == -1..3

\* the rows the mouse can select while `dragged` is being dragged: its own
\* row is left out
DropItems(dragged, collapsed) ==
  SeqRange(SelectSeq(Render(branches, order, collapsed),
                     LAMBDA r : r.id # dragged))

\* updateDropTarget(e): the event selects a row, a half of it and a depth
UpdateDropTarget(dragged, collapsed) ==
  /\ phase # "start"
  /\ pending = {}
  /\ \E r \in SeqRange(Render(branches, order, collapsed)) : r.id = dragged
  /\ \E row \in DropItems(dragged, collapsed) :
       \E insertAfter \in BOOLEAN, calculatedDepth \in DepthInputs :
         lastOp' = Call("updateDropTarget", row.id,
                        [insertAfter |-> insertAfter,
                         calculatedDepth |-> calculatedDepth,
                         currentDepth |-> row.depth,
                         collapsed |-> collapsed],
                        "", "",
                        DropTarget(branches, order, collapsed, row,
                                   insertAfter, calculatedDepth),
                        branches)
  /\ UNCHANGED <<branches, order, stored, liveTabs, tabBranch, selected,
                 tabsReady, dbAvail, pinnedSites, otherTabs, navToken, pending,
                 phase, nextId, nextTab, events, rootEnsured, cascade>>

\* the collapsed sets tried: nothing collapsed, or one branch
CollapsedSets == {{}} \cup {{c} : c \in DOMAIN branches \ {ROOT_BRANCH_ID}}

NextDrop ==
  \/ \E url \in TreeUrls, title \in TreeTitles : Initialize(url, title)
  \/ \E url \in TreeUrls, title \in TreeTitles,
        parentBranchId \in DOMAIN branches \cup {Null} :
       TabAdded(url, title, parentBranchId, Null) /\ Counted
  \/ \E p \in pending : ResumeTabData(p)
  \/ \E dragged \in DOMAIN branches, collapsed \in CollapsedSets :
       UpdateDropTarget(dragged, collapsed)

SpecDrop == InitReconcile /\ [][NextDrop]_vars

Dropped == lastOp.op = "updateDropTarget"

C35_ParentOneLevelUp ==
  Dropped =>
    LET d == lastOp.ret.targetDepth
        parent == lastOp.ret.targetBranchId
        rows == Render(lastOp.before, order, lastOp.arg.collapsed)
    IN  IF d = 0 THEN parent = ROOT_BRANCH_ID
        ELSE \E i \in 1..Len(rows) : rows[i] = Row(parent, d - 1)


\* C36: the token a breadcrumb click sets never suppresses the recording of
\* another tab's navigation or of a later ordinary one: every url update
\* that is not the navigation the click caused ends with the new url as the
\* entry at the cursor of its branch.
C36_OtherUpdatesRecorded ==
  [][\A tabId \in liveTabs, value \in CrumbUrls, title \in TreeTitles :
       LET branch == GetByTabId(branches, order, tabId)
       IN  (UrlUpdate(tabId, value, title) /\ ~Resulting(branch, value))
             => LET b == branches'[branch]
                IN  /\ Len(b.history) > 0
                    /\ b.history[EffectiveIndex(b) + 1].url = value]_vars


\* getTree() flattened: each parentless branch followed by its descendants
RECURSIVE TreeOf(_, _, _)
TreeOf(br, ord, roots) ==
  IF roots = <<>> THEN <<>>
  ELSE <<Head(roots)>> \o GetDescendants(br, ord, Head(roots))
         \o TreeOf(br, ord, Tail(roots))
GetTree(br, ord) == TreeOf(br, ord, GetRoots(br, ord))

\* C37: in every steady state that tab events and Reconciler passes lead
\* to, every branch of the store appears exactly once in getTree(): none is
\* missing because its parentId names a branch that no longer exists.
C37_EveryBranchInTree ==
  Quiescent =>
    \A id \in DOMAIN branches :
      Cardinality({i \in 1..Len(GetTree(branches, order)) :
                     GetTree(branches, order)[i] = id}) = 1


(***************************************************************************)
(* Tab closings on record: the tab-destroyed event with the store it       *)
(* found, kept on record until the destroy calls it led to have all        *)
(* completed.                                                              *)
(***************************************************************************)
TabDestroyedCall(tabId) ==
  /\ TabDestroyedStep(tabId)
  /\ lastOp' = Call("tabDestroyed", GetByTabId(branches, order, tabId),
                    tabId, "", "", TRUE, branches)

ResumeDestroyRun(p) ==
  /\ ResumeDestroyStep(p)
  /\ lastOp' = IF p.val = "cascade" THEN lastOp ELSE NoOp

NextClose ==
  \/ \E url \in TreeUrls, title \in TreeTitles : Initialize(url, title)
  \/ \E url \in TreeUrls, title \in TreeTitles,
        parentBranchId \in DOMAIN branches \cup {Null} :
       TabAdded(url, title, parentBranchId, Null)
  \/ \E p \in pending : ResumeTabData(p)
  \/ \E tabId \in liveTabs : TabDestroyedCall(tabId)
  \/ \E p \in pending : ResumeDestroyRun(p)

SpecClose == Init /\ [][NextClose]_vars

\* the tab has a branch in the store
TabHasBranch(br, tabId) == \E id \in DOMAIN br : br[id].tabId = tabId

\* C38: once a tab-destroyed event is fully processed, every tab still live
\* that had a branch before the event still has one: closing a tab never
\* removes the branch of another tab that is open.
C38_OpenTabsKeepBranch ==
  (/\ lastOp.op = "tabDestroyed"
   /\ \A p \in pending : ~(p.k = "destroy" /\ p.val = "cascade"))
    => \A t \in liveTabs :
         TabHasBranch(lastOp.before, t) => TabHasBranch(branches, t)


(***************************************************************************)
(* Several containers (tasks).  The global `tabs` that safeTabs() returns  *)
(* is the tab list of the selected task (liveTabs); the tab-added handler  *)
(* looks for ROOT's tab in every task (liveTabs and otherTabs).            *)
(***************************************************************************)
\* What a session with two tasks left: ROOT's tab in the selected task, the
\* tab of ROOT's child in the other one.
TwoTasks ==
  [stored |-> (ROOT_BRANCH_ID :> StoredRoot(1)) @@
              (1 :> Branch(2, ROOT_BRANCH_ID, "a", "t", <<Entry("a", "t")>>, 0)),
   tabs |-> (1 :> ROOT_BRANCH_ID)]

InitContainers ==
  \/ \E sc \in Scenarios : InitFrom(sc)
  \/ InitWith(TwoTasks, {2})

NextContainers ==
  \/ \E url \in TreeUrls, title \in TreeTitles : Initialize(url, title)
  \/ \E url \in TreeUrls, title \in TreeTitles : TabAdded(url, title, Null, Null)
  \/ \E p \in pending : ResumeTabData(p)
  \/ \E tabId \in liveTabs : TabSelected(tabId)
  \/ \E p \in pending : ResumeDestroyKeep(p)
  \/ ReconcileCall

SpecContainers == InitContainers /\ [][NextContainers]_vars

\* C39: a Reconciler pass never destroys a branch whose tab is live in some
\* container, the selected one or another: a tab is live as the ROOT-tab
\* test of the tab-added handler has it, when some task's list holds it.
C39_LiveElsewhereKept ==
  lastOp.op = "reconcile" =>
    \A id \in DOMAIN lastOp.before :
      lastOp.before[id].tabId \in liveTabs \cup otherTabs
        => id \in DOMAIN branches /\ id \notin BeingDestroyed


(***************************************************************************)
(* Two tab-updated events of one branch on record: the first with the      *)
(* store it found, the second next to it, whether or not the handler of    *)
(* the first (a title handler is suspended at its await) has run to its    *)
(* end in between.                                                         *)
(***************************************************************************)
Ev(key, value, title) == [key |-> key, value |-> value, title |-> title]

\* the record after the event ev of `branch`
Recorded(branch, ev) ==
  IF lastOp.op = "first" /\ lastOp.id = branch
  THEN [lastOp EXCEPT !.op = "both", !.arg = Append(lastOp.arg, ev)]
  ELSE IF lastOp.op = "none" /\ pending = {}
  THEN Call("first", branch, <<ev>>, "", "", FALSE, branches)
  ELSE Call("more", branch, <<>>, "", "", FALSE, <<>>)

UrlEvent(tabId, value, title) ==
  /\ TabUpdatedUrlStep(tabId, value, title)
  /\ lastOp' = Recorded(GetByTabId(branches, order, tabId),
                        Ev("url", value, title))

TitleEvent(tabId, value) ==
  /\ TabUpdatedTitleStep(tabId, value)
  /\ lastOp' = Recorded(GetByTabId(branches, order, tabId),
                        Ev("title", value, value))

ResumeTitleKeep(p) ==
  /\ ResumeTitleStep(p)
  /\ UNCHANGED lastOp

NextOverlap ==
  \/ \E url \in HistUrls, title \in HistTitles : Initialize(url, title)
  \/ \E tabId \in liveTabs, value \in HistUrls, title \in HistTitles :
       UrlEvent(tabId, value, title)
  \/ \E tabId \in liveTabs, value \in HistTitles : TitleEvent(tabId, value)
  \/ \E p \in pending : ResumeTitleKeep(p)

SpecOverlap == InitHist /\ [][NextOverlap]_vars

\* a handler run from the event to its end with nothing in between
HandledAlone(br, id, ev) ==
  IF ev.key = "url"
  THEN LET added == AddToHistory(br, id, ev.value, ev.title, FALSE)
       IN  IF ev.value # "" THEN Update(added, id, [url |-> ev.value])
           ELSE added
  ELSE BackfillTitle(Update(br, id, [title |-> ev.value]), id, ev.value)

BothHandled ==
  /\ lastOp.op = "both"
  /\ \A p \in pending : p.k # "title"

\* C40: two tab-updated events of one branch whose handlers interleave at
\* their awaits lose and duplicate no history entry: the history and the
\* cursor in memory end as they would with the handlers run one after the
\* other in the order of the events.
C40_AsInEventOrder ==
  BothHandled =>
    LET one == HandledAlone(lastOp.before, lastOp.id, lastOp.arg[1])
        two == HandledAlone(one, lastOp.id, lastOp.arg[2])
    IN  /\ branches[lastOp.id].history = two[lastOp.id].history
        /\ branches[lastOp.id].historyIndex = two[lastOp.id].historyIndex

====
